---- MODULE Spec2Model ----
(***************************************************************************)
(* A model of the sqlair statement pipeline: the parser that splits a      *)
(* statement into bypass, input and output parts, the type binders that    *)
(* resolve the markers against Go types and expand stars, and the input    *)
(* binders that produce the SQL text and the positional parameters.        *)
(***************************************************************************)
EXTENDS Integers, Sequences, FiniteSets, TLC

\* ------------------------------------------------------------------
\* Bounds of the model.
\* ------------------------------------------------------------------

\* The longest statement, counted in parts, handed to the type binders.
MaxParts == 3

\* The longest list of exemplars or arguments handed to one call.
MaxArgs == 2

\* ------------------------------------------------------------------
\* Strings.  A string is a sequence of one-character strings, and Go
\* compares strings byte by byte.
\* ------------------------------------------------------------------

\* The byte value of the characters that occur in names.
ByteOf ==
    ("*" :> 42) @@ ("." :> 46) @@ ("A" :> 65) @@ ("I" :> 73) @@ ("M" :> 77) @@
    ("P" :> 80) @@ ("S" :> 83) @@ ("_" :> 95) @@ ("o" :> 111) @@
    ("a" :> 97) @@ ("b" :> 98) @@ ("c" :> 99) @@ ("d" :> 100) @@
    ("e" :> 101) @@ ("i" :> 105) @@ ("m" :> 109) @@ ("n" :> 110) @@
    ("p" :> 112) @@ ("r" :> 114) @@ ("s" :> 115) @@ ("t" :> 116)

\* s < t for Go strings.
StrLess(s, t) ==
    \E i \in 1..Len(t) :
        /\ \A j \in 1..(i - 1) : j <= Len(s) /\ s[j] = t[j]
        /\ (i > Len(s) \/ ByteOf[s[i]] < ByteOf[t[i]])

\* x put into the sorted sequence s, after the elements that are not above it.
InsertSorted(x, s) ==
    LET k == Cardinality({i \in 1..Len(s) : ~StrLess(x, s[i])})
    IN  SubSeq(s, 1, k) \o <<x>> \o SubSeq(s, k + 1, Len(s))

RECURSIVE SortStrings(_)
\* sort.Strings: the strings of s in ascending order.
SortStrings(s) ==
    IF s = <<>> THEN <<>> ELSE InsertSorted(Head(s), SortStrings(Tail(s)))

\* The sequences over S of length lo..hi.
SeqsOf(S, lo, hi) == UNION {[1..n -> S] : n \in lo..hi}

\* The orders in which the elements of the set S can be visited.
Orders(S) == {f \in [1..Cardinality(S) -> S] : \A x \in S : \E i \in DOMAIN f : f[i] = x}

\* The elements of the sequence s at the indexes in K, in order.
RECURSIVE SelectIdx(_, _)
SelectIdx(s, K) ==
    IF s = <<>> THEN <<>>
    ELSE LET n == Len(s)
             r == SelectIdx(SubSeq(s, 1, n - 1), K)
         IN  IF n \in K THEN Append(r, s[n]) ELSE r

\* Whether no element occurs twice in the sequence s.
NoRepeat(s) == \A i, j \in DOMAIN s : i # j => s[i] # s[j]

\* ------------------------------------------------------------------
\* The Go types of the tests, and the values passed as exemplars and
\* arguments.
\* ------------------------------------------------------------------

ID       == <<"i", "d">>
NAME     == <<"n", "a", "m", "e">>
STREET   == <<"s", "t", "r", "e", "e", "t">>
DISTRICT == <<"d", "i", "s", "t", "r", "i", "c", "t">>
STAR     == <<"*">>

\* The names of the types.
PERSON   == <<"P", "e", "r", "s", "o", "n">>
ADDRESS  == <<"A", "d", "d", "r", "e", "s", "s">>
MAP      == <<"M">>

Person       == [pkg |-> "expr_test", name |-> PERSON, kind |-> "struct"]
Address      == [pkg |-> "expr_test", name |-> ADDRESS, kind |-> "struct"]
\* A second type called Person, declared in another scope, without the
\* field of the tag id.
ShadowPerson == [pkg |-> "shadow", name |-> PERSON, kind |-> "struct"]
M            == [pkg |-> "expr_test", name |-> MAP, kind |-> "map"]
\* Two named slice types, as in `type Ints []int`.
Ints         == [pkg |-> "expr_test", name |-> <<"I", "n", "t", "s">>, kind |-> "slice"]
Strs         == [pkg |-> "expr_test", name |-> <<"S", "t", "r", "s">>, kind |-> "slice"]
\* The types of the values that are no struct and no map.
IntType      == [pkg |-> "", name |-> <<"i", "n", "t">>, kind |-> "int"]
NilType      == [pkg |-> "", name |-> <<>>, kind |-> "invalid"]

GoTypes == {Person, Address, ShadowPerson, M}
TypeNames == {t.name : t \in GoTypes}

\* The db tags of the fields of a struct type, in the order of the fields.
FieldTags(t) ==
    CASE t = Person       -> <<ID, NAME>>
      [] t = Address      -> <<ID, DISTRICT, STREET>>
      [] t = ShadowPerson -> <<NAME>>
      [] OTHER            -> <<>>

\* The db tags of a struct type.
TagsOf(t) == {FieldTags(t)[i] : i \in DOMAIN FieldTags(t)}
Tags == UNION {TagsOf(t) : t \in GoTypes}

\* The n-th value of type t of the model; a map value holds the key id.
ArgOf(t, n) ==
    [typ |-> t, inst |-> n, keys |-> IF t.kind = "map" THEN {ID} ELSE TagsOf(t)]
NilArg == ArgOf(NilType, 0)
IntArg == ArgOf(IntType, 0)

\* The value held by the field (or under the map key) tag of the value v.
FieldValue(v, tag) == [of |-> v.typ, inst |-> v.inst, tag |-> tag]

\* The exemplars handed to the type binders, and the arguments handed to
\* the input binders: one value of each type, an int and nil.
Exemplars == {ArgOf(t, 1) : t \in GoTypes} \cup {NilArg, IntArg}
ArgValues == {ArgOf(t, 1) : t \in GoTypes} \cup {NilArg, IntArg}

\* ------------------------------------------------------------------
\* The parts of a parsed statement.
\* ------------------------------------------------------------------

Bypass(chunk) == [kind |-> "bypass", chunk |-> chunk]
Input(typeName, memberName) ==
    [kind |-> "input", typeName |-> typeName, memberName |-> memberName,
     isSlice |-> FALSE]
\* An input part of the slice syntax, as in $S[:].
SliceInput(typeName) ==
    [kind |-> "input", typeName |-> typeName, memberName |-> <<>>, isSlice |-> TRUE]
Output(sourceColumns, targetTypes) ==
    [kind |-> "output", sourceColumns |-> sourceColumns, targetTypes |-> targetTypes]
Col(tableName, columnName) == [tableName |-> tableName, columnName |-> columnName]
Tgt(typeName, memberName) == [typeName |-> typeName, memberName |-> memberName]

\* columnAccessor.String / FullName.String: "table.column", or "column".
ColString(c) ==
    IF c.tableName = <<>> THEN c.columnName
    ELSE IF c.columnName = <<>> THEN c.tableName
    ELSE c.tableName \o <<".">> \o c.columnName

\* strconv.Itoa for the naturals.
Digits == <<"0", "1", "2", "3", "4", "5", "6", "7", "8", "9">>
RECURSIVE Itoa(_)
Itoa(n) ==
    IF n < 10 THEN <<Digits[n + 1]>>
    ELSE Itoa(n \div 10) \o <<Digits[(n % 10) + 1]>>

\* The text written piece by piece into a buffer: its pieces joined.
RECURSIVE Join(_)
Join(pieces) == IF pieces = <<>> THEN <<>> ELSE Head(pieces) \o Join(Tail(pieces))

\* Whether the string s starts with the string p.
HasPrefix(s, p) == Len(s) >= Len(p) /\ SubSeq(s, 1, Len(p)) = p

\* ------------------------------------------------------------------
\* Type information (package typeinfo).
\* ------------------------------------------------------------------

Ok(v)   == [err |-> "", detail |-> <<>>, val |-> v]
Fail(e) == [err |-> e, detail |-> <<>>, val |-> <<>>]

\* The keys of the map m in the order of one range over it, when the run
\* ranges over maps in the order rng.
Ranged(m, rng) == SelectIdx(rng, {i \in DOMAIN rng : rng[i] \in DOMAIN m})

\* A member of a type: a tagged struct field or a map key.
Member(t, memberName) == [outerType |-> t, memberName |-> memberName]

\* info.typeMember: the member of the type called memberName.
typeMember(info, memberName) ==
    IF info.kind = "map" THEN Ok(Member(info, memberName))
    ELSE IF memberName \in TagsOf(info) THEN Ok(Member(info, memberName))
    ELSE Fail("no tag in type")

\* structInfo.tags: the tags of a struct type, kept sorted.
tags(info) == SortStrings(FieldTags(info))

\* info.getAllMembers: every member of a struct, in the order of its tags.
getAllMembers(info) ==
    IF info.kind = "map" THEN Fail("cannot use map with asterisk")
    ELSE Ok([i \in 1..Len(tags(info)) |-> Member(info, tags(info)[i])])

\* The table of the exemplars' types by type name, as Prepare collects it.
RECURSIVE typeNameToInfo(_, _)
typeNameToInfo(args, ti) ==
    IF args = <<>> THEN Ok(ti)
    ELSE LET t == Head(args).typ IN
         IF t.kind = "invalid" THEN Fail("need struct or map, got nil")
         ELSE IF t.kind \notin {"struct", "map"} THEN Fail("need struct or map, got kind")
         ELSE IF t.name = <<>> THEN Fail("cannot use anonymous type")
         ELSE IF t.name \in DOMAIN ti
              THEN IF ti[t.name] = t THEN Fail("found multiple instances of type")
                   ELSE Fail("two types found with name")
         ELSE typeNameToInfo(Tail(args), ti @@ (t.name :> t))

\* The empty table.
NoTypes == [n \in {} |-> Person]

\* typeinfo.GenerateArgInfo: the table of the types of the arguments.
GenerateArgInfo(args) == typeNameToInfo(args, NoTypes)

\* argInfo.InputMember / argInfo.OutputMember: the member of the named type.
InputMember(argInfo, typeName, memberName) ==
    IF typeName \notin DOMAIN argInfo THEN Fail("parameter with type missing")
    ELSE typeMember(argInfo[typeName], memberName)

OutputMember(argInfo, typeName, memberName) ==
    IF typeName \notin DOMAIN argInfo THEN Fail("parameter with type missing")
    ELSE typeMember(argInfo[typeName], memberName)

\* argInfo.AllStructOutputs: every member of the named struct type.
AllStructOutputs(argInfo, typeName) ==
    IF typeName \notin DOMAIN argInfo THEN Fail("parameter with type missing")
    ELSE getAllMembers(argInfo[typeName])

\* colString / newOutputColumn: a column name behind its table name.
colString(pref, columnName) ==
    IF pref = <<>> THEN columnName ELSE pref \o <<".">> \o columnName

newOutputColumn(tableName, columnName, member) ==
    [sql |-> colString(tableName, columnName), tm |-> member]

\* ------------------------------------------------------------------
\* Prepare (package expr): the type binder that keeps one prepared part
\* per parsed part.
\* ------------------------------------------------------------------

\* getKeys: the keys of a map in sorted order; ranged is the order in which
\* the range over the map yields them.
getKeys(ranged) == SortStrings(ranged)

starCountColumns(cs) == Cardinality({i \in DOMAIN cs : cs[i].columnName = STAR})

starCountTypes(vs) == Cardinality({i \in DOMAIN vs : vs[i].memberName = STAR})

\* typeMissingError: the error that names the types at hand.
typeMissingError(missingType, existingTypes) ==
    [err |-> "parameter with type missing", detail |-> existingTypes, val |-> <<>>]

\* prepareInput that takes every member name for a member of the type.
prepareInputAnyMember(ti, p, rng) ==
    IF p.typeName \notin DOMAIN ti
    THEN typeMissingError(p.typeName, getKeys(Ranged(ti, rng)))
    ELSE Ok([kind |-> "input", input |-> Member(ti[p.typeName], p.memberName)])

\* prepareInput: the member an input part names.
prepareInput(ti, p, rng) ==
    IF p.typeName \notin DOMAIN ti
    THEN typeMissingError(p.typeName, getKeys(Ranged(ti, rng)))
    ELSE LET tm == typeMember(ti[p.typeName], p.memberName)
         IN  IF tm.err # "" THEN tm
             ELSE Ok([kind |-> "input", input |-> tm.val])

\* prepareOutput, case 1: the columns generated from the target types.
RECURSIVE prepareGenerated(_, _, _, _)
prepareGenerated(ti, targetTypes, pref, rng) ==
    IF targetTypes = <<>> THEN Ok(<<>>)
    ELSE LET t == Head(targetTypes) IN
         IF t.typeName \notin DOMAIN ti
         THEN typeMissingError(t.typeName, getKeys(Ranged(ti, rng)))
         ELSE LET info == ti[t.typeName]
                  all  == getAllMembers(info)
                  tm   == typeMember(info, t.memberName)
                  cols == IF t.memberName = STAR
                          THEN IF all.err # "" THEN all
                               ELSE Ok([i \in DOMAIN all.val |->
                                        [sql |-> colString(pref, all.val[i].memberName),
                                         tm  |-> all.val[i]]])
                          ELSE IF tm.err # "" THEN tm
                               ELSE Ok(<<[sql |-> colString(pref, t.memberName),
                                          tm  |-> tm.val]>>)
                  rest == prepareGenerated(ti, Tail(targetTypes), pref, rng)
              IN  IF cols.err # "" THEN cols
                  ELSE IF rest.err # "" THEN rest
                  ELSE Ok(cols.val \o rest.val)

\* prepareOutput, case 2: the source columns as members of the one star type.
RECURSIVE prepareExplicit(_, _)
prepareExplicit(info, sourceColumns) ==
    IF sourceColumns = <<>> THEN Ok(<<>>)
    ELSE LET c    == Head(sourceColumns)
             tm   == typeMember(info, c.columnName)
             rest == prepareExplicit(info, Tail(sourceColumns))
         IN  IF tm.err # "" THEN tm
             ELSE IF rest.err # "" THEN rest
             ELSE Ok(<<[sql |-> ColString(c), tm |-> tm.val]>> \o rest.val)

\* prepareOutput, case 3: the source columns paired with the target types.
RECURSIVE preparePaired(_, _, _, _)
preparePaired(ti, sourceColumns, targetTypes, rng) ==
    IF sourceColumns = <<>> THEN Ok(<<>>)
    ELSE LET c == Head(sourceColumns)
             t == Head(targetTypes)
         IN  IF t.typeName \notin DOMAIN ti
             THEN typeMissingError(t.typeName, getKeys(Ranged(ti, rng)))
             ELSE LET tm   == typeMember(ti[t.typeName], t.memberName)
                      rest == preparePaired(ti, Tail(sourceColumns), Tail(targetTypes), rng)
                  IN  IF tm.err # "" THEN tm
                      ELSE IF rest.err # "" THEN rest
                      ELSE Ok(<<[sql |-> ColString(c), tm |-> tm.val]>> \o rest.val)

\* prepareOutput without the rejection of an asterisk among several
\* columns.
prepareOutputMixed(ti, p, rng) ==
    IF Len(p.sourceColumns) = 0
       \/ (Len(p.sourceColumns) = 1 /\ starCountColumns(p.sourceColumns) = 1)
    THEN prepareGenerated(ti, p.targetTypes,
             IF Len(p.sourceColumns) > 0 THEN p.sourceColumns[1].tableName ELSE <<>>, rng)
    ELSE IF starCountTypes(p.targetTypes) = 1 /\ Len(p.targetTypes) = 1
    THEN IF p.targetTypes[1].typeName \notin DOMAIN ti
         THEN typeMissingError(p.targetTypes[1].typeName, getKeys(Ranged(ti, rng)))
         ELSE prepareExplicit(ti[p.targetTypes[1].typeName], p.sourceColumns)
    ELSE IF starCountTypes(p.targetTypes) > 0 /\ Len(p.targetTypes) > 1
    THEN Fail("invalid asterisk in types")
    ELSE IF Len(p.sourceColumns) = Len(p.targetTypes)
    THEN preparePaired(ti, p.sourceColumns, p.targetTypes, rng)
    ELSE Fail("mismatched number of columns and target types")

\* prepareOutput: the output columns of an output part.
prepareOutput(ti, p, rng) ==
    LET numTypes    == Len(p.targetTypes)
        numColumns  == Len(p.sourceColumns)
        starTypes   == starCountTypes(p.targetTypes)
        starColumns == starCountColumns(p.sourceColumns)
    IN  IF numColumns = 0 \/ (numColumns = 1 /\ starColumns = 1)
        THEN prepareGenerated(ti, p.targetTypes,
                 IF numColumns > 0 THEN p.sourceColumns[1].tableName ELSE <<>>, rng)
        ELSE IF numColumns > 1 /\ starColumns > 0
        THEN Fail("invalid asterisk in columns")
        ELSE IF starTypes = 1 /\ numTypes = 1
        THEN IF p.targetTypes[1].typeName \notin DOMAIN ti
             THEN typeMissingError(p.targetTypes[1].typeName, getKeys(Ranged(ti, rng)))
             ELSE prepareExplicit(ti[p.targetTypes[1].typeName], p.sourceColumns)
        ELSE IF starTypes > 0 /\ numTypes > 1
        THEN Fail("invalid asterisk in types")
        ELSE IF numColumns = numTypes
        THEN preparePaired(ti, p.sourceColumns, p.targetTypes, rng)
        ELSE Fail("mismatched number of columns and target types")

\* A check that lets every member through.
markPresentUnchecked(outputColumns, typeMemberPresent) ==
    Ok(typeMemberPresent \cup {outputColumns[j].tm : j \in DOMAIN outputColumns})

\* The check of Prepare on the columns of one output part: their members
\* join the members already present, and it is an error when one of them
\* is there already.
RECURSIVE markPresent(_, _)
markPresent(outputColumns, typeMemberPresent) ==
    IF outputColumns = <<>> THEN Ok(typeMemberPresent)
    ELSE LET tm == Head(outputColumns).tm
         IN  IF tm \in typeMemberPresent
             THEN Fail("appears more than once in output expressions")
             ELSE markPresent(Tail(outputColumns), typeMemberPresent \cup {tm})

\* The loop of Prepare over the parts.
RECURSIVE prepareParts(_, _, _, _)
prepareParts(ti, parts, typeMemberPresent, rng) ==
    IF parts = <<>> THEN Ok(<<>>)
    ELSE LET p == Head(parts) IN
         CASE p.kind = "input" ->
                LET pi   == prepareInput(ti, p, rng)
                    rest == prepareParts(ti, Tail(parts), typeMemberPresent, rng)
                IN  IF pi.err # "" THEN pi
                    ELSE IF rest.err # "" THEN rest
                    ELSE Ok(<<pi.val>> \o rest.val)
           [] p.kind = "output" ->
                LET po      == prepareOutput(ti, p, rng)
                    present == markPresent(po.val, typeMemberPresent)
                    rest    == prepareParts(ti, Tail(parts), present.val, rng)
                IN  IF po.err # "" THEN po
                    ELSE IF present.err # "" THEN present
                    ELSE IF rest.err # "" THEN rest
                    ELSE Ok(<<[kind |-> "output", outputColumns |-> po.val]>> \o rest.val)
           [] OTHER ->
                LET rest == prepareParts(ti, Tail(parts), typeMemberPresent, rng)
                IN  IF rest.err # "" THEN rest
                    ELSE Ok(<<[kind |-> "bypass", chunk |-> p.chunk]>> \o rest.val)

\* Prepare: the prepared expression of the parsed expression pe, or an error.
Prepare(pe, args, rng) ==
    LET ti == typeNameToInfo(args, NoTypes)
    IN  IF ti.err # "" THEN ti ELSE prepareParts(ti.val, pe, {}, rng)

\* ------------------------------------------------------------------
\* BindTypes and BindInputs (package expr).
\* ------------------------------------------------------------------

\* bindInputTypes: the typed input expression of an input expression.
bindInputTypes(e, argInfo) ==
    IF e.isSlice THEN Fail("slice support not implemented")
    ELSE LET input == InputMember(argInfo, e.typeName, e.memberName)
         IN  IF input.err # "" THEN input
             ELSE Ok([kind |-> "input", input |-> input.val])

\* bindOutputTypes, no columns or a wildcard column: the columns generated
\* from the target types.
RECURSIVE bindGenerated(_, _, _)
bindGenerated(targetTypes, tablePrefix, argInfo) ==
    IF targetTypes = <<>> THEN Ok(<<>>)
    ELSE LET va      == Head(targetTypes)
             members == AllStructOutputs(argInfo, va.typeName)
             member  == OutputMember(argInfo, va.typeName, va.memberName)
             cols    == IF va.memberName = STAR
                        THEN IF members.err # "" THEN members
                             ELSE Ok([i \in DOMAIN members.val |->
                                      newOutputColumn(tablePrefix,
                                          members.val[i].memberName, members.val[i])])
                        ELSE IF member.err # "" THEN member
                             ELSE Ok(<<newOutputColumn(tablePrefix, va.memberName,
                                                       member.val)>>)
             rest    == bindGenerated(Tail(targetTypes), tablePrefix, argInfo)
         IN  IF cols.err # "" THEN cols
             ELSE IF rest.err # "" THEN rest
             ELSE Ok(cols.val \o rest.val)

\* bindOutputTypes, standard columns under the one star type: each column
\* as the member of the type with its name.
RECURSIVE bindExplicit(_, _, _)
bindExplicit(ca, typeName, argInfo) ==
    IF ca = <<>> THEN Ok(<<>>)
    ELSE LET c      == Head(ca)
             member == OutputMember(argInfo, typeName, c.columnName)
             rest   == bindExplicit(Tail(ca), typeName, argInfo)
         IN  IF member.err # "" THEN member
             ELSE IF rest.err # "" THEN rest
             ELSE Ok(<<newOutputColumn(c.tableName, c.columnName, member.val)>>
                     \o rest.val)

\* bindOutputTypes, standard columns: the loop over the target types from
\* the i-th on.
RECURSIVE bindStandard(_, _, _, _)
bindStandard(ca, targetTypes, i, argInfo) ==
    IF i > Len(targetTypes) THEN Ok(<<>>)
    ELSE LET va == targetTypes[i] IN
         IF va.memberName = STAR
         THEN IF Len(targetTypes) # 1 THEN Fail("invalid asterisk in types")
              ELSE bindExplicit(ca, va.typeName, argInfo)
         ELSE IF Len(ca) # Len(targetTypes)
              THEN Fail("mismatched number of columns and target types")
              ELSE LET member == OutputMember(argInfo, va.typeName, va.memberName)
                       rest   == bindStandard(ca, targetTypes, i + 1, argInfo)
                   IN  IF member.err # "" THEN member
                       ELSE IF rest.err # "" THEN rest
                       ELSE Ok(<<newOutputColumn(ca[i].tableName, ca[i].columnName,
                                                 member.val)>> \o rest.val)

\* bindOutputTypes: the typed output expression of an output expression.
\* The source columns are nil (none), a wildcard column (one column named
\* "*") or standard columns.
bindOutputTypes(e, argInfo) ==
    LET ca == e.sourceColumns
        oc == IF ca = <<>> THEN bindGenerated(e.targetTypes, <<>>, argInfo)
              ELSE IF Len(ca) = 1 /\ ca[1].columnName = STAR
              THEN bindGenerated(e.targetTypes, ca[1].tableName, argInfo)
              ELSE bindStandard(ca, e.targetTypes, 1, argInfo)
    IN  IF oc.err # "" THEN oc
        ELSE Ok([kind |-> "output", outputColumns |-> oc.val])

\* The check of BindTypes on the columns of one output expression: their
\* outputs join the outputs already used, and it is an error when one of
\* them is used already.
RECURSIVE markUsed(_, _)
markUsed(outputColumns, outputUsed) ==
    IF outputColumns = <<>> THEN Ok(outputUsed)
    ELSE LET output == Head(outputColumns).tm
         IN  IF output \in outputUsed
             THEN Fail("appears more than once in output expressions")
             ELSE markUsed(Tail(outputColumns), outputUsed \cup {output})

\* The loop of BindTypes over the expressions.
RECURSIVE bindExprs(_, _, _)
bindExprs(exprs, argInfo, outputUsed) ==
    IF exprs = <<>> THEN Ok(<<>>)
    ELSE LET e == Head(exprs) IN
         CASE e.kind = "input" ->
                LET te   == bindInputTypes(e, argInfo)
                    rest == bindExprs(Tail(exprs), argInfo, outputUsed)
                IN  IF te.err # "" THEN te
                    ELSE IF rest.err # "" THEN rest
                    ELSE Ok(<<te.val>> \o rest.val)
           [] e.kind = "output" ->
                LET toe  == bindOutputTypes(e, argInfo)
                    used == markUsed(toe.val.outputColumns, outputUsed)
                    rest == bindExprs(Tail(exprs), argInfo, used.val)
                IN  IF toe.err # "" THEN toe
                    ELSE IF used.err # "" THEN used
                    ELSE IF rest.err # "" THEN rest
                    ELSE Ok(<<toe.val>> \o rest.val)
           [] OTHER ->
                LET rest == bindExprs(Tail(exprs), argInfo, outputUsed)
                IN  IF rest.err # "" THEN rest
                    ELSE Ok(<<e>> \o rest.val)

\* BindTypes: the type bound expression of the parsed expression pe, or an
\* error.
BindTypes(pe, args) ==
    LET argInfo == GenerateArgInfo(args)
    IN  IF argInfo.err # "" THEN argInfo ELSE bindExprs(pe, argInfo.val, {})

\* The pieces of text of the generated SQL.
sqlairPrefix == <<"s", "q", "l", "a", "i", "r", "_">>
inputPrefix  == <<"@">> \o sqlairPrefix
markerPrefix == <<"_">> \o sqlairPrefix
asText       == <<" ", "A", "S", " ">>
commaText    == <<",", " ">>

\* A marker name that does not count.
markerNameFirst(n) == markerPrefix \o Itoa(0)

markerName(n) == markerPrefix \o Itoa(n)

\* A named argument that lost its name.
NamedNothing(name, value) == [Name |-> <<>>, Value |-> value]

\* sql.Named: a named query parameter.
Named(name, value) == [Name |-> name, Value |-> value]

\* typeMember.ValueFromOuter: the value of the member in the value v of its
\* outer type.
ValueFromOuter(tm, v) ==
    IF tm.memberName \in v.keys THEN Ok(FieldValue(v, tm.memberName))
    ELSE Fail("map does not contain key")

\* typeToValue that looks at the first argument alone.
typeToValueFirst(args, m) ==
    IF args = <<>> THEN Ok(m)
    ELSE LET v == Head(args)
             t == v.typ
         IN  IF t.kind = "invalid" THEN Fail("need struct or map, got nil")
             ELSE IF t.kind \notin {"struct", "map"}
             THEN Fail("need struct or map, got kind")
             ELSE IF t \in DOMAIN m THEN Fail("type provided more than once")
             ELSE Ok(m @@ (t :> v))

\* The table typeToValue that BindInputs builds from its arguments.
RECURSIVE typeToValue(_, _)
typeToValue(args, m) ==
    IF args = <<>> THEN Ok(m)
    ELSE LET v == Head(args)
             t == v.typ
         IN  IF t.kind = "invalid" THEN Fail("need struct or map, got nil")
             ELSE IF t.kind \notin {"struct", "map"}
             THEN Fail("need struct or map, got kind")
             ELSE IF t \in DOMAIN m THEN Fail("type provided more than once")
             ELSE typeToValue(Tail(args), m @@ (t :> v))

\* The empty table.
NoValues == [t \in {} |-> NilArg]

\* inputMissingError: the error for an input whose type has no argument;
\* ranged is the order in which the range over typeToValue yields the types.
RECURSIVE inputMissingError(_, _, _)
inputMissingError(missingType, ranged, typeNames) ==
    IF ranged = <<>> THEN typeMissingError(missingType.name, typeNames)
    ELSE IF Head(ranged).name = missingType.name
    THEN Fail("parameter with type missing, have type with same name")
    ELSE inputMissingError(missingType, Tail(ranged),
                           Append(typeNames, Head(ranged).name))

\* The columns of a typed output expression numbered from the last to the
\* first.
RECURSIVE outputSQLBackwards(_, _, _)
outputSQLBackwards(outputColumns, i, outCount) ==
    IF i > Len(outputColumns) THEN <<>>
    ELSE outputColumns[i].sql \o asText
         \o markerName(outCount + Len(outputColumns) - i)
         \o (IF i # Len(outputColumns) THEN commaText ELSE <<>>)
         \o outputSQLBackwards(outputColumns, i + 1, outCount)

\* The SQL of the columns of a typed output expression from the i-th on,
\* numbered from outCount on.
RECURSIVE outputSQL(_, _, _)
outputSQL(outputColumns, i, outCount) ==
    IF i > Len(outputColumns) THEN <<>>
    ELSE outputColumns[i].sql \o asText \o markerName(outCount)
         \o (IF i # Len(outputColumns) THEN commaText ELSE <<>>)
         \o outputSQL(outputColumns, i + 1, outCount + 1)

\* The loop of BindInputs over the typed expressions; st holds the local
\* variables of BindInputs.
RECURSIVE bindLoop(_, _, _, _)
bindLoop(tes, ttv, st, rng) ==
    IF tes = <<>> THEN Ok(st)
    ELSE LET te == Head(tes) IN
         CASE te.kind = "input" ->
                LET outerType == te.input.outerType
                    val       == ValueFromOuter(te.input, ttv[outerType])
                IN  IF outerType \notin DOMAIN ttv
                    THEN inputMissingError(outerType, Ranged(ttv, rng), <<>>)
                    ELSE IF val.err # "" THEN val
                    ELSE bindLoop(Tail(tes), ttv,
                           [st EXCEPT
                              !.argTypeUsed = @ \cup {outerType},
                              !.params = Append(@, Named(sqlairPrefix \o Itoa(st.inCount),
                                                         val.val)),
                              !.sqlStr = @ \o inputPrefix \o Itoa(st.inCount),
                              !.inCount = @ + 1], rng)
           [] te.kind = "output" ->
                bindLoop(Tail(tes), ttv,
                  [st EXCEPT
                     !.sqlStr = @ \o outputSQL(te.outputColumns, 1, st.outCount),
                     !.outCount = @ + Len(te.outputColumns),
                     !.outputs = @ \o [i \in DOMAIN te.outputColumns |->
                                       te.outputColumns[i].tm]], rng)
           [] OTHER ->
                bindLoop(Tail(tes), ttv, [st EXCEPT !.sqlStr = @ \o te.chunk], rng)

\* A check that takes every argument type as used.
notReferencedSkipped(ranged, argTypeUsed) == Ok(<<>>)

\* The check of BindInputs that every argument type is used.
RECURSIVE notReferenced(_, _)
notReferenced(ranged, argTypeUsed) ==
    IF ranged = <<>> THEN Ok(<<>>)
    ELSE IF Head(ranged) \notin argTypeUsed
    THEN [err |-> "not referenced in query", detail |-> <<Head(ranged).name>>,
          val |-> <<>>]
    ELSE notReferenced(Tail(ranged), argTypeUsed)

\* BindInputs that numbers its inputs from one.
BindInputsFromOne(tes, args, rng) ==
    LET ttv == typeToValue(args, NoValues)
        st  == bindLoop(tes, ttv.val,
                  [params |-> <<>>, outputs |-> <<>>, argTypeUsed |-> {},
                   inCount |-> 1, outCount |-> 0, sqlStr |-> <<>>], rng)
        nr  == notReferenced(Ranged(ttv.val, rng), st.val.argTypeUsed)
    IN  IF ttv.err # "" THEN ttv
        ELSE IF st.err # "" THEN st
        ELSE IF nr.err # "" THEN nr
        ELSE Ok([outputs |-> st.val.outputs, sql |-> st.val.sqlStr,
                 params |-> st.val.params])

\* BindInputs: the primed query of the typed expressions tes and the
\* arguments args, or an error.
BindInputs(tes, args, rng) ==
    LET ttv == typeToValue(args, NoValues)
        st  == bindLoop(tes, ttv.val,
                  [params |-> <<>>, outputs |-> <<>>, argTypeUsed |-> {},
                   inCount |-> 0, outCount |-> 0, sqlStr |-> <<>>], rng)
        nr  == notReferenced(Ranged(ttv.val, rng), st.val.argTypeUsed)
    IN  IF ttv.err # "" THEN ttv
        ELSE IF st.err # "" THEN st
        ELSE IF nr.err # "" THEN nr
        ELSE Ok([outputs |-> st.val.outputs, sql |-> st.val.sqlStr,
                 params |-> st.val.params])

\* ------------------------------------------------------------------
\* Prepare and sql (package expr, the variant that keeps the parsed
\* parts and the lists of inputs and outputs), and Complete.
\* ------------------------------------------------------------------

\* The table of the exemplars' types by type name, as this Prepare collects
\* it: structs, maps and slices.
RECURSIVE typeNameToInfo3(_, _)
typeNameToInfo3(args, ti) ==
    IF args = <<>> THEN Ok(ti)
    ELSE LET t == Head(args).typ IN
         IF t.kind = "invalid" THEN Fail("need valid value, got nil")
         ELSE IF t.kind \notin {"struct", "map", "slice"} THEN Fail("unsupported type")
         ELSE IF t.name = <<>> THEN Fail("cannot use anonymous type")
         ELSE IF t.name \in DOMAIN ti
              THEN IF ti[t.name] = t THEN Fail("found multiple instances of type")
                   ELSE Fail("two types found with name")
         ELSE typeNameToInfo3(Tail(args), ti @@ (t.name :> t))

\* prepareInput: the member an input part names.
prepareInput3(ti, p, rng) ==
    IF p.typeName \notin DOMAIN ti
    THEN typeMissingError(p.typeName, getKeys(Ranged(ti, rng)))
    ELSE IF p.isSlice
    THEN IF ti[p.typeName].kind \in {"struct", "map"}
         THEN Fail("cannot use slice syntax")
         ELSE Ok(Member(ti[p.typeName], <<>>))
    ELSE typeMember(ti[p.typeName], p.memberName)

\* prepareOutput, case 1: the columns of all the members of a type, and
\* the column of one member.
starColumns3(all, pref) ==
    IF all.err # "" THEN all
    ELSE Ok([i \in DOMAIN all.val |->
             [col |-> Col(pref, all.val[i].memberName), tm |-> all.val[i]]])

memberColumn3(tm, pref, t) ==
    IF tm.err # "" THEN tm
    ELSE Ok(<<[col |-> Col(pref, t.memberName), tm |-> tm.val]>>)

\* The columns cols, if they are no error, before the columns rest.
appendColumns3(cols, rest) ==
    IF cols.err # "" THEN cols
    ELSE IF rest.err # "" THEN rest
    ELSE Ok(cols.val \o rest.val)

\* prepareOutput, case 1: the columns generated from the target types, each
\* with its member.
RECURSIVE prepareGenerated3(_, _, _, _)
prepareGenerated3(ti, targetTypes, pref, rng) ==
    IF targetTypes = <<>> THEN Ok(<<>>)
    ELSE IF Head(targetTypes).typeName \notin DOMAIN ti
    THEN typeMissingError(Head(targetTypes).typeName, getKeys(Ranged(ti, rng)))
    ELSE appendColumns3(
            IF Head(targetTypes).memberName = STAR
            THEN starColumns3(getAllMembers(ti[Head(targetTypes).typeName]), pref)
            ELSE memberColumn3(typeMember(ti[Head(targetTypes).typeName],
                                          Head(targetTypes).memberName),
                               pref, Head(targetTypes)),
            prepareGenerated3(ti, Tail(targetTypes), pref, rng))

\* The column c read into the member tm, if that is no error, before the
\* columns rest.
pairedColumn3(c, tm, rest) ==
    IF tm.err # "" THEN tm
    ELSE IF rest.err # "" THEN rest
    ELSE Ok(<<[col |-> c, tm |-> tm.val]>> \o rest.val)

\* prepareOutput, case 2: the source columns as members of the one star type.
RECURSIVE prepareExplicit3(_, _)
prepareExplicit3(info, sourceColumns) ==
    IF sourceColumns = <<>> THEN Ok(<<>>)
    ELSE pairedColumn3(Head(sourceColumns),
                       typeMember(info, Head(sourceColumns).columnName),
                       prepareExplicit3(info, Tail(sourceColumns)))

\* prepareOutput, case 3: the source columns paired with the target types.
RECURSIVE preparePaired3(_, _, _, _)
preparePaired3(ti, sourceColumns, targetTypes, rng) ==
    IF sourceColumns = <<>> THEN Ok(<<>>)
    ELSE IF Head(targetTypes).typeName \notin DOMAIN ti
    THEN typeMissingError(Head(targetTypes).typeName, getKeys(Ranged(ti, rng)))
    ELSE pairedColumn3(Head(sourceColumns),
                       typeMember(ti[Head(targetTypes).typeName],
                                  Head(targetTypes).memberName),
                       preparePaired3(ti, Tail(sourceColumns), Tail(targetTypes), rng))

\* prepareOutput: the case that the numbers of columns, of types and of
\* stars select.
prepareCase3(ti, p, rng, numTypes, numColumns, starTypes, starColumns) ==
    IF numColumns = 0 \/ (numColumns = 1 /\ starColumns = 1)
    THEN prepareGenerated3(ti, p.targetTypes,
             IF numColumns > 0 THEN p.sourceColumns[1].tableName ELSE <<>>, rng)
    ELSE IF numColumns > 1 /\ starColumns > 0
    THEN Fail("invalid asterisk in columns")
    ELSE IF starTypes = 1 /\ numTypes = 1
    THEN IF p.targetTypes[1].typeName \notin DOMAIN ti
         THEN typeMissingError(p.targetTypes[1].typeName, getKeys(Ranged(ti, rng)))
         ELSE prepareExplicit3(ti[p.targetTypes[1].typeName], p.sourceColumns)
    ELSE IF starTypes > 0 /\ numTypes > 1
    THEN Fail("invalid asterisk in types")
    ELSE IF numColumns = numTypes
    THEN preparePaired3(ti, p.sourceColumns, p.targetTypes, rng)
    ELSE Fail("mismatched number of columns and target types")

\* prepareOutput: what it returns for the columns r of the case.
preparedColumns3(r) ==
    IF r.err # "" THEN r
    ELSE Ok([outCols     |-> [i \in DOMAIN r.val |-> r.val[i].col],
             typeMembers |-> [i \in DOMAIN r.val |-> r.val[i].tm]])

\* prepareOutput: the columns of an output part and the members they are
\* read into.
prepareOutput3(ti, p, rng) ==
    preparedColumns3(prepareCase3(ti, p, rng, Len(p.targetTypes), Len(p.sourceColumns),
                                  starCountTypes(p.targetTypes),
                                  starCountColumns(p.sourceColumns)))

\* The check of Prepare on the members of one output part.
RECURSIVE markPresent3(_, _)
markPresent3(typeMembers, typeMemberPresent) ==
    IF typeMembers = <<>> THEN Ok(typeMemberPresent)
    ELSE IF Head(typeMembers) \in typeMemberPresent
    THEN Fail("appears more than once in output expressions")
    ELSE markPresent3(Tail(typeMembers), typeMemberPresent \cup {Head(typeMembers)})

RECURSIVE prepareParts3(_, _, _, _, _)

\* The loop of Prepare after prepareInput returned tm for the i-th part.
partsAfterInput3(ti, queryParts, i, st, rng, tm) ==
    IF tm.err # "" THEN tm
    ELSE prepareParts3(ti, queryParts, i + 1,
                       [st EXCEPT !.inputs = Append(@, tm.val)], rng)

\* The loop of Prepare after the members of the output po of the i-th part
\* were checked, with the result present.
partsAfterPresent3(ti, queryParts, i, st, rng, po, present) ==
    IF present.err # "" THEN present
    ELSE prepareParts3(ti, queryParts, i + 1,
           [st EXCEPT !.typeMemberPresent = present.val,
                      !.outputs = @ \o po.val.typeMembers,
                      !.outputCols = @ @@ (i :> po.val.outCols)], rng)

\* The loop of Prepare after prepareOutput returned po for the i-th part.
partsAfterOutput3(ti, queryParts, i, st, rng, po) ==
    IF po.err # "" THEN po
    ELSE partsAfterPresent3(ti, queryParts, i, st, rng, po,
                            markPresent3(po.val.typeMembers, st.typeMemberPresent))

\* The loop of Prepare over the parts from the i-th on; st holds the local
\* variables of Prepare.  The table outputCols is keyed by the output part,
\* here by its place in the statement.
prepareParts3(ti, queryParts, i, st, rng) ==
    IF i > Len(queryParts) THEN Ok(st)
    ELSE CASE queryParts[i].kind = "input" ->
                partsAfterInput3(ti, queryParts, i, st, rng,
                                 prepareInput3(ti, queryParts[i], rng))
           [] queryParts[i].kind = "output" ->
                partsAfterOutput3(ti, queryParts, i, st, rng,
                                  prepareOutput3(ti, queryParts[i], rng))
           [] OTHER -> prepareParts3(ti, queryParts, i + 1, st, rng)

\* Prepare: what it returns for the local variables st the loop ended with.
preparedExpr3(pe, st) ==
    IF st.err # "" THEN st
    ELSE Ok([inputs |-> st.val.inputs, outputs |-> st.val.outputs,
             queryParts |-> pe, outputCols |-> st.val.outputCols])

\* Prepare after the loop over the arguments returned the table ti.
prepareWithTypes3(pe, ti, rng) ==
    IF ti.err # "" THEN ti
    ELSE preparedExpr3(pe, prepareParts3(ti.val, pe, 1,
             [inputs |-> <<>>, outputs |-> <<>>, typeMemberPresent |-> {},
              outputCols |-> <<>>], rng))

\* Prepare: the prepared expression of the parsed expression pe, or an error.
Prepare3(pe, args, rng) == prepareWithTypes3(pe, typeNameToInfo3(args, NoTypes), rng)

\* The placeholders of a slice input that all carry the number inCount.
RECURSIVE slicePlaceholdersSame(_, _, _)
slicePlaceholdersSame(i, n, inCount) ==
    IF i >= n THEN <<>>
    ELSE inputPrefix \o Itoa(inCount)
         \o (IF i < n - 1 THEN commaText ELSE <<>>)
         \o slicePlaceholdersSame(i + 1, n, inCount)

\* The placeholders of a slice input of n elements, numbered from inCount.
RECURSIVE slicePlaceholders(_, _, _)
slicePlaceholders(i, n, inCount) ==
    IF i >= n THEN <<>>
    ELSE inputPrefix \o Itoa(inCount)
         \o (IF i < n - 1 THEN commaText ELSE <<>>)
         \o slicePlaceholders(i + 1, n, inCount + 1)

\* The SQL of the columns cols from the i-th on, numbered from outCount on.
RECURSIVE columnsSQL(_, _, _)
columnsSQL(cols, i, outCount) ==
    IF i > Len(cols) THEN <<>>
    ELSE ColString(cols[i]) \o asText \o markerName(outCount)
         \o (IF i # Len(cols) THEN commaText ELSE <<>>)
         \o columnsSQL(cols, i + 1, outCount + 1)

\* The loop of sql over the parts from the i-th on.
RECURSIVE sqlLoop(_, _, _, _, _, _)
sqlLoop(pe, sc, i, inCount, outCount, sliceCount) ==
    IF i > Len(pe.queryParts) THEN <<>>
    ELSE LET p == pe.queryParts[i] IN
         CASE p.kind = "input" ->
                IF p.isSlice
                THEN slicePlaceholders(0, sc.sliceLens[sliceCount + 1], inCount)
                     \o sqlLoop(pe, sc, i + 1, inCount + sc.sliceLens[sliceCount + 1],
                                outCount, sliceCount + 1)
                ELSE inputPrefix \o Itoa(inCount)
                     \o sqlLoop(pe, sc, i + 1, inCount + 1, outCount, sliceCount)
           [] p.kind = "output" ->
                columnsSQL(pe.outputCols[i], 1, outCount)
                \o sqlLoop(pe, sc, i + 1, inCount, outCount + Len(pe.outputCols[i]),
                           sliceCount)
           [] OTHER ->
                p.chunk \o sqlLoop(pe, sc, i + 1, inCount, outCount, sliceCount)

\* PreparedExpr.sql: the SQL of the prepared expression for the slice
\* lengths of sc.
sql(pe, sc) == sqlLoop(pe, sc, 1, 0, 0, 0)

\* The structs and the map M among the arguments of Complete.
RECURSIVE completeArgs(_, _)
completeArgs(args, st) ==
    IF args = <<>> THEN Ok(st)
    ELSE LET v == Head(args)
             t == v.typ
         IN  IF t.kind = "invalid" THEN Fail("nil parameter")
             ELSE IF t.kind = "struct"
             THEN IF t \in DOMAIN st.tv THEN Fail("multiple type passed in as parameter")
                  ELSE completeArgs(Tail(args),
                         [st EXCEPT !.tv = @ @@ (t :> v),
                                    !.typeNames = Append(@, t.name)])
             ELSE IF t.kind = "map"
             THEN IF st.foundMap THEN Fail("multiple map M passed in as parameter")
                  ELSE completeArgs(Tail(args),
                         [st EXCEPT !.m = v, !.foundMap = TRUE,
                                    !.typeNames = Append(@, t.name)])
             ELSE Fail("unsupported type: need a struct or map M")

\* The loop of Complete over the inputs from the i-th on (i counts from 0).
RECURSIVE completeInputs(_, _, _, _, _)
completeInputs(inputs, i, a, qargs, foundMapKey) ==
    IF i >= Len(inputs) THEN Ok([qargs |-> qargs, foundMapKey |-> foundMapKey])
    ELSE LET in == inputs[i + 1] IN
         CASE in.outerType.kind = "struct" ->
                IF in.outerType \notin DOMAIN a.tv
                THEN [err |-> "type not found", detail |-> a.typeNames, val |-> <<>>]
                ELSE completeInputs(inputs, i + 1, a,
                       Append(qargs, Named(sqlairPrefix \o Itoa(i),
                                           FieldValue(a.tv[in.outerType], in.memberName))),
                       foundMapKey)
           [] in.outerType.kind = "map" ->
                IF a.foundMap
                THEN IF in.memberName \notin a.m.keys THEN Fail("key not found in map")
                     ELSE completeInputs(inputs, i + 1, a,
                            Append(qargs, Named(sqlairPrefix \o Itoa(i),
                                                FieldValue(a.m, in.memberName))),
                            TRUE)
                ELSE completeInputs(inputs, i + 1, a, qargs, TRUE)
           [] OTHER -> Fail("internal error: field type not supported")

\* Complete: the completed expression of the prepared expression pe and the
\* arguments args, or an error.
Complete(pe, args) ==
    LET a == completeArgs(args, [tv |-> NoValues, m |-> NilArg, foundMap |-> FALSE,
                                 typeNames |-> <<>>])
        q == completeInputs(pe.inputs, 0, a.val, <<>>, FALSE)
    IN  IF a.err # "" THEN a
        ELSE IF q.err # "" THEN q
        ELSE IF ~a.val.foundMap /\ q.val.foundMapKey
        THEN Fail("map key found, but there is no map input")
        ELSE IF a.val.foundMap /\ ~q.val.foundMapKey
        THEN Fail("map input received but there is no matching map key")
        ELSE Ok([outputs |-> pe.outputs, SQL |-> pe.SQL, Args |-> q.val.qargs])

\* ------------------------------------------------------------------
\* Assemble (package assemble), in its two variants.
\* ------------------------------------------------------------------

\* typeinfo.TypeInfo: the information on the type of a value.
TypeInfo(arg) ==
    IF arg.typ.kind \in {"struct", "map"} THEN Ok(arg.typ)
    ELSE Fail("cannot reflect type")

\* The table of the arguments' types by type name, as Assemble collects it.
RECURSIVE assembleTypes(_, _)
assembleTypes(args, ti) ==
    IF args = <<>> THEN Ok(ti)
    ELSE LET i == TypeInfo(Head(args))
         IN  IF i.err # "" THEN i
             ELSE assembleTypes(Tail(args),
                    [n \in DOMAIN ti \cup {i.val.name} |->
                        IF n = i.val.name THEN i.val ELSE ti[n]])

\* InputPart.ToSQL, OutputPart.ToSQL: the SQL of a part.
inputToSQL == <<"?">>

RECURSIVE outputToSQL(_)
outputToSQL(outCols) ==
    IF outCols = <<>> THEN <<>>
    ELSE Head(outCols)
         \o (IF Len(outCols) > 1 THEN commaText ELSE <<>>)
         \o outputToSQL(Tail(outCols))

\* strings.TrimSpace, for text whose only white space is the space.
RECURSIVE TrimSpace(_)
TrimSpace(str) ==
    IF str = <<>> THEN <<>>
    ELSE IF Head(str) = " " THEN TrimSpace(Tail(str))
    ELSE IF str[Len(str)] = " " THEN TrimSpace(SubSeq(str, 1, Len(str) - 1))
    ELSE str

assembleInput(ti, p) ==
    IF p.typeName \in DOMAIN ti
    THEN IF p.memberName \in TagsOf(ti[p.typeName]) THEN Ok(<<>>)
         ELSE Fail("there is no tag with name")
    ELSE Fail("unknown type")

\* createOutCols: the columns of the names of source, as written (fromString)
\* or by their name alone; checked against the tags of inf when hasInf.
RECURSIVE createOutCols(_, _, _, _)
createOutCols(source, fromString, hasInf, inf) ==
    IF source = <<>> THEN Ok(<<>>)
    ELSE LET c    == Head(source)
             rest == createOutCols(Tail(source), fromString, hasInf, inf)
         IN  IF hasInf /\ c.columnName \notin TagsOf(inf)
             THEN Fail("there is no tag with name")
             ELSE IF rest.err # "" THEN rest
             ELSE Ok(<<IF fromString THEN ColString(c) ELSE c.columnName>> \o rest.val)

\* The check of assembleOutput on the target types.
RECURSIVE checkTargets(_, _)
checkTargets(ti, target) ==
    IF target = <<>> THEN Ok(<<>>)
    ELSE LET t == Head(target)
         IN  IF t.typeName \notin DOMAIN ti THEN Fail("unknown type")
             ELSE IF t.memberName \notin TagsOf(ti[t.typeName]) /\ t.memberName # STAR
             THEN Fail("there is no tag with name")
             ELSE checkTargets(ti, Tail(target))

\* The tags of the type inf in the order of one range over inf.TagToField,
\* when the run ranges over tags in the order rng.
RangedTags(inf, rng) == SelectIdx(rng, {i \in DOMAIN rng : rng[i] \in TagsOf(inf)})

\* The targets of an output part seen as names, for createOutCols.
AsNames(target) == [i \in DOMAIN target |-> Col(target[i].typeName, target[i].memberName)]

\* The columns of the single star case in the order of the range over the
\* tags.
starOutColsRanged(inf, sourceColumns, rng) ==
    LET pref == IF Len(sourceColumns) > 0 /\ sourceColumns[1].tableName # <<>>
                THEN sourceColumns[1].tableName \o <<".">> ELSE <<>>
    IN  [i \in DOMAIN RangedTags(inf, rng) |-> pref \o RangedTags(inf, rng)[i]]

\* The columns of the single star case without the table name.
starOutColsBare(inf, sourceColumns, rng) == SortStrings(RangedTags(inf, rng))

\* assembleOutput, the single star case: one column per tag of inf, behind
\* the table name of the source when there is one, sorted.
starOutCols(inf, sourceColumns, rng) ==
    LET pref == IF Len(sourceColumns) > 0 /\ sourceColumns[1].tableName # <<>>
                THEN sourceColumns[1].tableName \o <<".">> ELSE <<>>
    IN  SortStrings([i \in DOMAIN RangedTags(inf, rng) |->
                        pref \o RangedTags(inf, rng)[i]])

\* assembleOutput: the columns of an output part.
assembleOutput(ti, p, rng) ==
    LET chk == checkTargets(ti, p.targetTypes)
        inf == ti[p.targetTypes[1].typeName]
    IN  IF chk.err # "" THEN chk
        ELSE IF p.targetTypes[1].memberName = STAR
                /\ ((Len(p.sourceColumns) > 0 /\ p.sourceColumns[1].columnName = STAR)
                    \/ Len(p.sourceColumns) = 0)
        THEN Ok(starOutCols(inf, p.sourceColumns, rng))
        ELSE IF p.targetTypes[1].memberName = STAR
        THEN createOutCols(p.sourceColumns, TRUE, TRUE, inf)
        ELSE IF Len(p.sourceColumns) > 0
        THEN createOutCols(p.sourceColumns, TRUE, FALSE, inf)
        ELSE createOutCols(AsNames(p.targetTypes), FALSE, FALSE, inf)

\* The loop of Assemble over the parts.
RECURSIVE assembleParts(_, _, _)
assembleParts(ti, parts, rng) ==
    IF parts = <<>> THEN Ok(<<>>)
    ELSE LET p    == Head(parts)
             rest == assembleParts(ti, Tail(parts), rng)
         IN  CASE p.kind = "input" ->
                    IF assembleInput(ti, p).err # "" THEN assembleInput(ti, p)
                    ELSE IF rest.err # "" THEN rest
                    ELSE Ok(inputToSQL \o rest.val)
               [] p.kind = "output" ->
                    LET outCols == assembleOutput(ti, p, rng)
                    IN  IF outCols.err # "" THEN outCols
                        ELSE IF rest.err # "" THEN rest
                        ELSE Ok(outputToSQL(outCols.val) \o rest.val)
               [] OTHER ->
                    IF rest.err # "" THEN rest ELSE Ok(p.chunk \o rest.val)

\* Assemble: the assembled expression of the parsed expression pe, or an
\* error.
Assemble(pe, args, rng) ==
    LET ti  == assembleTypes(args, NoTypes)
        str == assembleParts(ti.val, pe, rng)
    IN  IF ti.err # "" THEN ti
        ELSE IF str.err # "" THEN str
        ELSE Ok([Parsed |-> pe, SQL |-> TrimSpace(str.val)])

\* typeinfo.FieldValue: the value of the member of the value v that the
\* part names, or an error when v has no such member.
fieldValueOf(v, source) ==
    IF source.memberName \in v.keys THEN Ok(FieldValue(v, source.memberName))
    ELSE Fail("field not found")

\* The table tv that Complete (package complete) builds from its arguments,
\* keyed by the names of their types: a later argument takes the place of
\* an earlier one of a type with the same name.
RECURSIVE typeNameToValue(_, _)
typeNameToValue(args, tv) ==
    IF args = <<>> THEN Ok(tv)
    ELSE IF Head(args).typ.kind = "invalid" THEN Fail("cannot reflect nil value")
    ELSE typeNameToValue(Tail(args),
            [n \in DOMAIN tv \cup {Head(args).typ.name} |->
                IF n = Head(args).typ.name THEN Head(args) ELSE tv[n]])

\* The loop of Complete (package complete) over the parts: the values of
\* the input parts.
RECURSIVE completeParts(_, _, _)
completeParts(parts, tv, fvs) ==
    IF parts = <<>> THEN Ok(fvs)
    ELSE IF Head(parts).kind # "input" THEN completeParts(Tail(parts), tv, fvs)
    ELSE IF Head(parts).typeName \notin DOMAIN tv
    THEN [err |-> "type not passed as a parameter", detail |-> <<Head(parts).typeName>>,
          val |-> <<>>]
    ELSE IF fieldValueOf(tv[Head(parts).typeName], Head(parts)).err # ""
    THEN fieldValueOf(tv[Head(parts).typeName], Head(parts))
    ELSE completeParts(Tail(parts), tv,
            Append(fvs, fieldValueOf(tv[Head(parts).typeName], Head(parts)).val))

\* The rest of Complete (package complete) once the table tv is built: the
\* number of the input parts is compared with the number of the arguments.
completeWith(ae, args, tv) ==
    IF tv.err # "" THEN tv
    ELSE IF completeParts(ae.Parsed, tv.val, <<>>).err # ""
    THEN completeParts(ae.Parsed, tv.val, <<>>)
    ELSE IF Len(completeParts(ae.Parsed, tv.val, <<>>).val) # Len(args)
    THEN [err |-> "parameters mismatch",
          detail |-> <<Len(completeParts(ae.Parsed, tv.val, <<>>).val), Len(args)>>,
          val |-> <<>>]
    ELSE Ok([Parsed |-> ae.Parsed,
             InputValues |-> completeParts(ae.Parsed, tv.val, <<>>).val])

\* Complete (package complete): the completed expression of the assembled
\* expression ae and the arguments args, or an error.
CompleteAssembled(ae, args) ==
    completeWith(ae, args, typeNameToValue(args, [n \in {} |-> NilArg]))

\* makeOutCols: the tags behind the prefix.
makeOutCols(tagList, prefix) == [i \in DOMAIN tagList |-> prefix \o tagList[i]]

\* assembleOutput, star target with explicit columns: the columns as
\* written, each a tag of inf.
RECURSIVE explicitOutCols(_, _)
explicitOutCols(sourceColumns, inf) ==
    IF sourceColumns = <<>> THEN Ok(<<>>)
    ELSE LET c    == Head(sourceColumns)
             rest == explicitOutCols(Tail(sourceColumns), inf)
         IN  IF c.columnName \notin TagsOf(inf) THEN Fail("there is no tag with name")
             ELSE IF rest.err # "" THEN rest
             ELSE Ok(<<ColString(c)>> \o rest.val)

\* assembleOutput, no star target: the check of the target types.
RECURSIVE checkTargets2(_, _)
checkTargets2(ti, target) ==
    IF target = <<>> THEN Ok(<<>>)
    ELSE LET t == Head(target)
         IN  IF t.typeName \notin DOMAIN ti THEN Fail("unknown type")
             ELSE IF t.memberName \notin TagsOf(ti[t.typeName])
             THEN Fail("there is no tag with name")
             ELSE checkTargets2(ti, Tail(target))

\* assembleOutput of the second variant: the columns of an output part.
assembleOutput2(ti, p, rng) ==
    IF p.targetTypes[1].memberName = STAR
    THEN IF p.targetTypes[1].typeName \notin DOMAIN ti THEN Fail("unknown type")
         ELSE LET inf     == ti[p.targetTypes[1].typeName]
                  tagList == RangedTags(inf, rng)
                  outCols ==
                      IF Len(p.sourceColumns) > 0
                      THEN IF p.sourceColumns[1].columnName = STAR
                           THEN Ok(makeOutCols(tagList,
                                    IF p.sourceColumns[1].tableName # <<>>
                                    THEN p.sourceColumns[1].tableName \o <<".">>
                                    ELSE <<>>))
                           ELSE explicitOutCols(p.sourceColumns, inf)
                      ELSE Ok(makeOutCols(tagList, <<>>))
              IN  IF outCols.err # "" THEN outCols
                  ELSE Ok(SortStrings(outCols.val))
    ELSE LET chk == checkTargets2(ti, p.targetTypes)
         IN  IF chk.err # "" THEN chk
             ELSE IF Len(p.sourceColumns) > 0
             THEN Ok([i \in DOMAIN p.sourceColumns |-> ColString(p.sourceColumns[i])])
             ELSE Ok([i \in DOMAIN p.targetTypes |-> p.targetTypes[i].memberName])

\* The loop of Assemble of the second variant over the parts.
RECURSIVE assembleParts2(_, _, _)
assembleParts2(ti, parts, rng) ==
    IF parts = <<>> THEN Ok(<<>>)
    ELSE LET p    == Head(parts)
             rest == assembleParts2(ti, Tail(parts), rng)
         IN  CASE p.kind = "input" ->
                    IF assembleInput(ti, p).err # "" THEN assembleInput(ti, p)
                    ELSE IF rest.err # "" THEN rest
                    ELSE Ok(inputToSQL \o rest.val)
               [] p.kind = "output" ->
                    LET outCols == assembleOutput2(ti, p, rng)
                    IN  IF outCols.err # "" THEN outCols
                        ELSE IF rest.err # "" THEN rest
                        ELSE Ok(outputToSQL(outCols.val) \o rest.val)
               [] OTHER ->
                    IF rest.err # "" THEN rest ELSE Ok(p.chunk \o rest.val)

\* Assemble of the second variant.
Assemble2(pe, args, rng) ==
    LET ti  == assembleTypes(args, NoTypes)
        str == assembleParts2(ti.val, pe, rng)
    IN  IF ti.err # "" THEN ti
        ELSE IF str.err # "" THEN str
        ELSE Ok([Parsed |-> pe, SQL |-> TrimSpace(str.val)])

\* ------------------------------------------------------------------
\* The parser (internal/parse/parser.go).  The functions take the parser p
\* and return it as they leave it; positions count from 0 as in the source.
\* ------------------------------------------------------------------

\* The largest number of tokens an input of the model is made of.
MaxTokens == 3

UpperCase == <<"A", "B", "C", "D", "E", "F", "G", "H", "I", "J", "K", "L", "M",
               "N", "O", "P", "Q", "R", "S", "T", "U", "V", "W", "X", "Y", "Z">>
LowerCase == <<"a", "b", "c", "d", "e", "f", "g", "h", "i", "j", "k", "l", "m",
               "n", "o", "p", "q", "r", "s", "t", "u", "v", "w", "x", "y", "z">>

\* strings.EqualFold on the bytes of the model: equal but for the case of
\* the letters.
Fold(c) == IF \E i \in DOMAIN UpperCase : UpperCase[i] = c
           THEN LowerCase[CHOOSE i \in DOMAIN UpperCase : UpperCase[i] = c]
           ELSE c
EqualFold(s, t) == Len(s) = Len(t) /\ \A i \in DOMAIN s : Fold(s[i]) = Fold(t[i])

\* input[from:to] and input[i].
Slice(input, from, to) == SubSeq(input, from + 1, to)
ByteAt(p, i) == p.input[i + 1]

\* The parts the parser builds.
FullName(prefix, name) == [Prefix |-> prefix, Name |-> name]
BypassPart(chunk) == [kind |-> "bypass", Chunk |-> chunk]
InputPart(source) == [kind |-> "input", Source |-> source]
OutputPart(source, target) == [kind |-> "output", Source |-> source, Target |-> target]
NoPart == [kind |-> "nil"]

\* NewParser and init.  Beside the fields of the source, spans keeps for
\* every part the offsets of the input it was made from.
\* array numbers the slices that init has made for the parts: parts is
\* the array-th of them.
NewParser ==
    [input |-> <<>>, pos |-> 0, prevPart |-> 0, partStart |-> 0, parts |-> <<>>,
     spans |-> <<>>, array |-> 0]

\* init that empties the slice of the parts and keeps its array.
initSameArray(p, input) ==
    [input |-> input, pos |-> 0, prevPart |-> 0, partStart |-> 0, parts |-> <<>>,
     spans |-> <<>>, array |-> p.array]

\* init: parts is a new empty slice.
init(p, input) ==
    [input |-> input, pos |-> 0, prevPart |-> 0, partStart |-> 0, parts |-> <<>>,
     spans |-> <<>>, array |-> p.array + 1]

\* save and restore: the checkpoint of the parser.
save(p) ==
    [pos |-> p.pos, prevPart |-> p.prevPart, partStart |-> p.partStart,
     parts |-> p.parts, spans |-> p.spans]

restore(p, cp) ==
    [p EXCEPT !.pos = cp.pos, !.prevPart = cp.prevPart, !.partStart = cp.partStart,
              !.parts = cp.parts, !.spans = cp.spans]

allowStar == 0
disallowStar == 1

\* An add that leaves out the text between the previous part and this one.
addPartOnly(p, part) ==
    [p EXCEPT
       !.parts = IF part # NoPart THEN Append(p.parts, part) ELSE p.parts,
       !.spans = IF part # NoPart THEN Append(p.spans, <<p.partStart, p.pos>>)
                 ELSE p.spans,
       !.prevPart = p.pos,
       !.partStart = p.pos]

\* add that leaves partStart where it was.
addKeepStart(p, part) ==
    LET bypass == IF p.prevPart # p.partStart
                  THEN <<BypassPart(Slice(p.input, p.prevPart, p.partStart))>> ELSE <<>>
        spanB  == IF p.prevPart # p.partStart THEN <<<<p.prevPart, p.partStart>>>> ELSE <<>>
    IN  [p EXCEPT !.parts = p.parts \o bypass \o (IF part = NoPart THEN <<>> ELSE <<part>>),
                  !.spans = p.spans \o spanB
                            \o (IF part = NoPart THEN <<>> ELSE <<<<p.partStart, p.pos>>>>),
                  !.prevPart = p.pos]

\* add: the bypass part between the previous part and this one, if there
\* is text between them, then the part, if there is one.
add(p, part) ==
    LET gap   == p.prevPart # p.partStart
        parts == IF gap
                 THEN Append(p.parts, BypassPart(Slice(p.input, p.prevPart, p.partStart)))
                 ELSE p.parts
        spans == IF gap THEN Append(p.spans, <<p.prevPart, p.partStart>>) ELSE p.spans
    IN  [p EXCEPT
           !.parts = IF part # NoPart THEN Append(parts, part) ELSE parts,
           !.spans = IF part # NoPart THEN Append(spans, <<p.partStart, p.pos>>) ELSE spans,
           !.prevPart = p.pos,
           !.partStart = p.pos]

\* The first position from i on whose byte is not in the set S, or the
\* length of the input.
RECURSIVE skipWhile(_, _, _)
skipWhile(input, i, S) ==
    IF i < Len(input) /\ input[i + 1] \in S THEN skipWhile(input, i + 1, S) ELSE i

\* The first position from i on whose byte is in the set S, or the length
\* of the input.
RECURSIVE skipUntil(_, _, _)
skipUntil(input, i, S) ==
    IF i < Len(input) /\ input[i + 1] \notin S THEN skipUntil(input, i + 1, S) ELSE i

peekByte(p, b) == p.pos < Len(p.input) /\ ByteAt(p, p.pos) = b

noteableBytes == {"$", "\"", "'", " "}

\* advance: on to the next noteable byte, and to the last of adjacent
\* spaces.
advance(p) ==
    LET q == [p EXCEPT !.pos = skipUntil(p.input, p.pos + 1, noteableBytes)]
    IN  IF peekByte(q, " ")
        THEN [q EXCEPT !.pos = skipWhile(q.input, q.pos + 1, {" "}) - 1]
        ELSE q

\* The skip functions: whether they skipped, and the parser after them.
skipByte(p, b) ==
    IF p.pos < Len(p.input) /\ ByteAt(p, p.pos) = b
    THEN [ok |-> TRUE, p |-> [p EXCEPT !.pos = @ + 1]]
    ELSE [ok |-> FALSE, p |-> p]

skipByteFind(p, b) ==
    LET i == skipUntil(p.input, p.pos, {b})
    IN  IF i < Len(p.input)
        THEN [ok |-> TRUE, p |-> [p EXCEPT !.pos = i + 1]]
        ELSE [ok |-> FALSE, p |-> p]

skipSpaces(p) ==
    LET mark == p.pos
        q    == [p EXCEPT !.pos = skipWhile(p.input, p.pos, {" "})]
    IN  [ok |-> q.pos # mark, p |-> q]

skipString(p, str) ==
    IF p.pos + Len(str) <= Len(p.input)
       /\ EqualFold(Slice(p.input, p.pos, p.pos + Len(str)), str)
    THEN [ok |-> TRUE, p |-> [p EXCEPT !.pos = @ + Len(str)]]
    ELSE [ok |-> FALSE, p |-> p]

isNameByte(c) ==
    \/ \E i \in DOMAIN UpperCase : UpperCase[i] = c
    \/ \E i \in DOMAIN LowerCase : LowerCase[i] = c
    \/ \E i \in DOMAIN Digits : Digits[i] = c
    \/ c = "_"

\* The bytes of an input that are name bytes.
NameBytes(input) == {input[i] : i \in {j \in DOMAIN input : isNameByte(input[j])}}

skipName(p) ==
    IF p.pos >= Len(p.input) THEN [ok |-> FALSE, p |-> p]
    ELSE LET mark == p.pos
             q    == [p EXCEPT !.pos = skipWhile(p.input, p.pos, NameBytes(p.input))]
         IN  [ok |-> q.pos > mark, p |-> q]

\* The parse functions: whether they parsed (ok), the error if there is
\* one (err), the parser after them (p) and what they parsed (val).
Parsed(p, val) == [ok |-> TRUE, err |-> "", p |-> p, val |-> val]
NotParsed(p)   == [ok |-> FALSE, err |-> "", p |-> p, val |-> <<>>]
ParseError(p, e) == [ok |-> FALSE, err |-> e, p |-> p, val |-> <<>>]

\* parseIdentifier: an asterisk, if starF allows it, or a name.
identifierName(p, name) ==
    IF name.ok THEN Parsed(name.p, Slice(p.input, p.pos, name.p.pos)) ELSE NotParsed(p)

parseIdentifier(p, starF) ==
    IF starF = allowStar /\ skipByte(p, "*").ok
    THEN Parsed(skipByte(p, "*").p, <<"*">>)
    ELSE identifierName(p, skipName(p))

\* columnAfterDot that does not go back to the checkpoint.
columnAfterDotNoRestore(cp, id, idCol) ==
    IF idCol.ok THEN Parsed(idCol.p, FullName(id.val, idCol.val))
    ELSE NotParsed(idCol.p)

\* parseColumn: a column name, or a table name, a dot and a column name.
columnAfterDot(cp, id, idCol) ==
    IF idCol.ok THEN Parsed(idCol.p, FullName(id.val, idCol.val))
    ELSE NotParsed(restore(idCol.p, cp))

columnAfterId(cp, id) ==
    IF ~id.ok THEN NotParsed(restore(id.p, cp))
    ELSE IF ~skipByte(id.p, ".").ok THEN Parsed(id.p, FullName(<<>>, id.val))
    ELSE columnAfterDot(cp, id, parseIdentifier(skipByte(id.p, ".").p, allowStar))

parseColumn(p) == columnAfterId(save(p), parseIdentifier(p, allowStar))

notAnIdentifier == "not a valid identifier for a go object field"
notQualified    == "go objects need to be qualified"

\* parseGoObject: a type name, a dot and a member name or an asterisk.
goObjectAfterDot(id, idField) ==
    IF idField.ok THEN Parsed(idField.p, FullName(id.val, idField.val))
    ELSE ParseError(idField.p, notAnIdentifier)

\* goObjectAfterId with a type name that no dot follows left to bypass.
goObjectAfterIdBypass(cp, id) ==
    IF ~id.ok THEN NotParsed(restore(id.p, cp))
    ELSE IF ~skipByte(id.p, ".").ok THEN NotParsed(restore(id.p, cp))
    ELSE IF parseIdentifier(skipByte(id.p, ".").p, allowStar).ok
    THEN Parsed(parseIdentifier(skipByte(id.p, ".").p, allowStar).p,
                FullName(id.val, parseIdentifier(skipByte(id.p, ".").p, allowStar).val))
    ELSE NotParsed(restore(id.p, cp))

goObjectAfterId(cp, id) ==
    IF ~id.ok THEN NotParsed(restore(id.p, cp))
    ELSE IF ~skipByte(id.p, ".").ok THEN ParseError(id.p, notQualified)
    ELSE goObjectAfterDot(id, parseIdentifier(skipByte(id.p, ".").p, allowStar))

parseGoObject(p) == goObjectAfterId(save(p), parseIdentifier(p, disallowStar))

\* parseColumns: one column, or columns in parentheses with commas between
\* them.
RECURSIVE moreColumns(_, _, _)
RECURSIVE nextColumn(_, _, _)
nextColumn(col, cols, cp) ==
    IF col.ok THEN moreColumns(skipSpaces(col.p).p, Append(cols, col.val), cp)
    ELSE NotParsed(restore(col.p, cp))

moreColumns(p, cols, cp) ==
    IF skipByte(p, ",").ok
    THEN nextColumn(parseColumn(skipSpaces(skipByte(p, ",").p).p), cols, cp)
    ELSE IF skipByte(p, ")").ok THEN Parsed(skipByte(p, ")").p, cols)
    ELSE NotParsed(restore(p, cp))

columnsAfterParen(cp, first) ==
    IF first.ok THEN moreColumns(skipSpaces(first.p).p, <<first.val>>, cp)
    ELSE NotParsed(restore(first.p, cp))

columnsAfterSpace(cp, col) ==
    IF col.ok THEN Parsed(col.p, <<col.val>>)
    ELSE IF ~skipByte(col.p, "(").ok THEN NotParsed(restore(col.p, cp))
    ELSE columnsAfterParen(cp, parseColumn(skipByte(col.p, "(").p))

parseColumns(p) == columnsAfterSpace(save(p), parseColumn(skipByte(p, " ").p))

\* starCount that sees no asterisk.
starCountNone(fns) == 0

starCount(fns) == Cardinality({i \in DOMAIN fns : fns[i].Name = <<"*">>})

\* parseTargets: behind a space and an ampersand one go object, or go
\* objects in parentheses with commas between them.
RECURSIVE moreTargets(_, _)
RECURSIVE nextTarget(_, _)
nextTarget(target, targets) ==
    IF target.ok THEN moreTargets(skipSpaces(target.p).p, Append(targets, target.val))
    ELSE IF target.err # "" THEN target
    ELSE ParseError(target.p, notAnIdentifier)

\* moreTargets without the count of the asterisks of the targets.
moreTargetsAnyStars(p, targets) ==
    IF skipByte(p, ",").ok
    THEN nextTarget(parseGoObject(skipSpaces(skipByte(p, ",").p).p), targets)
    ELSE IF skipByte(p, ")").ok THEN Parsed(skipByte(p, ")").p, targets)
    ELSE ParseError(p, "expected closing parentheses")

moreTargets(p, targets) ==
    IF skipByte(p, ",").ok
    THEN nextTarget(parseGoObject(skipSpaces(skipByte(p, ",").p).p), targets)
    ELSE IF starCount(targets) > 1 THEN ParseError(p, "more than one asterisk")
    ELSE IF skipByte(p, ")").ok THEN Parsed(skipByte(p, ")").p, targets)
    ELSE ParseError(p, "expected closing parentheses")

targetsAfterParen(first) ==
    IF first.ok THEN moreTargets(skipSpaces(first.p).p, <<first.val>>)
    ELSE IF first.err # "" THEN first
    ELSE ParseError(first.p, notAnIdentifier)

targetsAfterAmpersand(cp, target) ==
    IF target.ok THEN Parsed(target.p, <<target.val>>)
    ELSE IF target.err # "" THEN target
    ELSE IF ~skipByte(target.p, "(").ok THEN NotParsed(restore(target.p, cp))
    ELSE targetsAfterParen(parseGoObject(skipByte(target.p, "(").p))

parseTargets(p) ==
    IF ~skipString(p, <<" ", "&">>).ok THEN NotParsed(restore(p, save(p)))
    ELSE targetsAfterAmpersand(save(p), parseGoObject(skipString(p, <<" ", "&">>).p))

\* outputAfterAs without the comparison of the number of columns with the
\* number of targets.
outputAfterAsAnyCount(cp, cols, targets) ==
    IF targets.ok
    THEN IF targets.val[1].Prefix # <<"M">> /\ Len(cols.val) > 1
            /\ starCount(cols.val) >= 1
         THEN ParseError(targets.p, "cannot mix asterisk and explicit columns")
         ELSE Parsed(targets.p, OutputPart(cols.val, targets.val))
    ELSE IF targets.err # "" THEN targets
    ELSE NotParsed(restore(targets.p, cp))

\* parseOutputExpression: targets alone, or columns, AS and targets.
outputAfterAs(cp, cols, targets) ==
    IF targets.ok
    THEN IF ~(Len(targets.val) = 1 /\ targets.val[1].Name = <<"*">>)
            /\ Len(cols.val) # Len(targets.val)
         THEN ParseError(targets.p, "number of cols and number of targets differ")
         ELSE IF targets.val[1].Prefix # <<"M">> /\ Len(cols.val) > 1
                 /\ starCount(cols.val) >= 1
         THEN ParseError(targets.p, "cannot mix asterisk and explicit columns")
         ELSE Parsed(targets.p, OutputPart(cols.val, targets.val))
    ELSE IF targets.err # "" THEN targets
    ELSE NotParsed(restore(targets.p, cp))

outputAfterColumns(cp, cols) ==
    IF ~cols.ok THEN NotParsed(restore(cols.p, cp))
    ELSE IF ~skipString(skipSpaces(cols.p).p, <<"A", "S">>).ok
    THEN NotParsed(restore(cols.p, cp))
    ELSE outputAfterAs(cp, cols,
                       parseTargets(skipString(skipSpaces(cols.p).p, <<"A", "S">>).p))

outputAfterTargets(cp, targets) ==
    IF targets.ok THEN Parsed(targets.p, OutputPart(<<>>, targets.val))
    ELSE IF targets.err # "" THEN targets
    ELSE outputAfterColumns(cp, parseColumns(targets.p))

parseOutputExpression(p) == outputAfterTargets(save(p), parseTargets(p))

\* parseInputExpression: a dollar and a go object.
inputAfterDollar(cp, fn) ==
    IF fn.ok THEN Parsed(fn.p, InputPart(fn.val))
    ELSE IF fn.err # "" THEN fn
    ELSE NotParsed(restore(fn.p, cp))

parseInputExpression(p) ==
    IF ~skipByte(p, "$").ok THEN NotParsed(restore(p, save(p)))
    ELSE inputAfterDollar(save(p), parseGoObject(skipByte(p, "$").p))

missingRightQuote == "missing right quote in string literal"

\* parseStringLiteral: from a quote that no backslash precedes to the next
\* quote of its kind that no backslash precedes.
RECURSIVE closeLiteral(_, _, _)
RECURSIVE literalAfterQuote(_, _, _)
literalAfterQuote(found, c, cp) ==
    IF ~found.ok
    THEN [ok |-> FALSE, err |-> missingRightQuote, p |-> found.p, val |-> cp.pos]
    ELSE IF ByteAt(found.p, found.p.pos - 2) # "\\"
    THEN Parsed(found.p, BypassPart(Slice(found.p.input, cp.pos, found.p.pos)))
    ELSE closeLiteral(found.p, c, cp)

closeLiteral(p, c, cp) == literalAfterQuote(skipByteFind(p, c), c, cp)

parseStringLiteral(p) ==
    IF p.pos < Len(p.input) /\ ByteAt(p, p.pos) \in {"\"", "'"}
       /\ (p.pos = 0 \/ ByteAt(p, p.pos - 1) # "\\")
    THEN closeLiteral(skipByte(p, ByteAt(p, p.pos)).p, ByteAt(p, p.pos), save(p))
    ELSE NotParsed(restore(p, save(p)))

\* One turn of the loop of Parse: the three attempts one after the other,
\* each part that parsed added; then the end of the loop (done), or the
\* advance when nothing parsed.
TurnError(r) == [err |-> r.err, at |-> r.val, done |-> FALSE, p |-> r.p]

turnEnd(parsed, p) ==
    IF p.pos = Len(p.input)
    THEN [err |-> "", at |-> <<>>, done |-> TRUE, p |-> add(p, NoPart)]
    ELSE IF ~parsed THEN [err |-> "", at |-> <<>>, done |-> FALSE, p |-> advance(p)]
    ELSE [err |-> "", at |-> <<>>, done |-> FALSE, p |-> p]

turnAfterLiteral(parsed, sp) ==
    IF sp.err # "" THEN TurnError(sp)
    ELSE turnEnd(parsed \/ sp.ok, IF sp.ok THEN add(sp.p, sp.val) ELSE sp.p)

turnAfterInput(parsed, ip) ==
    IF ip.err # "" THEN TurnError(ip)
    ELSE turnAfterLiteral(parsed \/ ip.ok,
            parseStringLiteral(IF ip.ok THEN add(ip.p, ip.val) ELSE ip.p))

turnAfterOutput(op) ==
    IF op.err # "" THEN TurnError(op)
    ELSE turnAfterInput(op.ok,
            parseInputExpression(IF op.ok THEN add(op.p, op.val) ELSE op.p))

turn(p) == turnAfterOutput(parseOutputExpression([p EXCEPT !.partStart = p.pos]))

\* What Parse returns: the parsed expression, or nil and the error.
ParsedExpr(parts) == [QueryParts |-> parts]
NilExpr == [QueryParts |-> "nil"]

\* The parts of a parsed expression as the type binder reads them: the
\* prefix of a source column is its table name, the prefix of a target and
\* of an input is its type name.
columnAccessor(fn) == Col(fn.Prefix, fn.Name)
typeAccessor(fn)   == Tgt(fn.Prefix, fn.Name)

queryPart(part) ==
    IF part.kind = "bypass" THEN Bypass(part.Chunk)
    ELSE IF part.kind = "input" THEN Input(part.Source.Prefix, part.Source.Name)
    ELSE Output([i \in DOMAIN part.Source |-> columnAccessor(part.Source[i])],
                [i \in DOMAIN part.Target |-> typeAccessor(part.Target[i])])

queryParts(parts) == [k \in DOMAIN parts |-> queryPart(parts[k])]

\* ------------------------------------------------------------------
\* The statements of the model.
\* ------------------------------------------------------------------

TABLE == <<"a">>
FROM  == <<" ", "t", " ">>

\* The parts a statement of the model is made of: one bypass chunk, three
\* inputs, and outputs of every form (generated columns with and without a
\* table name, explicit columns under a star type, explicit columns paired
\* with types).
BypassParts == {Bypass(FROM)}
InputParts  == {Input(PERSON, ID), Input(ADDRESS, STREET), Input(MAP, ID)}
OutputParts ==
    { Output(<<>>, <<Tgt(PERSON, STAR)>>),
      Output(<<Col(TABLE, STAR)>>, <<Tgt(ADDRESS, STAR)>>),
      Output(<<>>, <<Tgt(PERSON, ID)>>),
      Output(<<Col(<<>>, NAME), Col(<<>>, ID)>>, <<Tgt(PERSON, STAR)>>),
      Output(<<Col(TABLE, STREET), Col(<<>>, ID)>>,
             <<Tgt(ADDRESS, STREET), Tgt(PERSON, ID)>>),
      Output(<<Col(<<>>, ID), Col(<<>>, STREET)>>, <<Tgt(PERSON, STAR)>>) }
Parts == BypassParts \cup InputParts \cup OutputParts

Statements == SeqsOf(Parts, 1, MaxParts)

\* ------------------------------------------------------------------
\* The state.
\* ------------------------------------------------------------------

VARIABLES
    pe,       \* the parsed statement at hand
    samples,  \* the exemplars of the runs of the type binders in SpecBind
    bound,    \* what the last type binder returned, and which one it was
    args,     \* the arguments of the last input binding
    primed,   \* what the last input binder returned, and which one it was
    parser,   \* the parser
    parsing,  \* where the call of Parse is, and what it returned
    cache,    \* the cache of the type information, by type
    callers,  \* where each concurrent call of TypeInfo is
    txn       \* where the call of Txn is, and the calls that returned

vars == <<pe, samples, bound, args, primed, parser, parsing, cache, callers, txn>>

\* What the statements and the parser do not touch.
Elsewhere == <<cache, callers, txn>>

\* No call of TypeInfo and no call of Txn.
ElsewhereIdle == cache = <<>> /\ callers = <<>> /\ txn = <<>>

\* No call of Parse yet.
Idle == [at |-> "idle", expr |-> NilExpr, err |-> "", detail |-> <<>>, earlier |-> <<>>]

Nothing == [by |-> "none", res |-> Ok(<<>>)]

Succeeded(r, by) == r.by = by /\ r.res.err = ""

\* One parsed statement, not bound yet.
Init ==
    /\ pe \in Statements
    /\ samples = <<>>
    /\ bound = Nothing
    /\ args = <<>>
    /\ primed = Nothing
    /\ parser = NewParser
    /\ parsing = Idle
    /\ ElsewhereIdle

\* The orders in which one run can range over a map with the keys K.
RangeOrders(K) == Orders(K)

ExemplarLists == SeqsOf(Exemplars, 0, MaxArgs)
ArgLists      == SeqsOf(ArgValues, 0, MaxArgs)

NamesOf(a) == {a[i].typ.name : i \in DOMAIN a}
TypesOf(a) == {a[i].typ : i \in DOMAIN a}

\* The caller binds the statement to the types of some exemplars.
CallBindTypes ==
    /\ bound.by = "none"
    /\ \E a \in ExemplarLists :
          bound' = [by |-> "BindTypes", res |-> BindTypes(pe, a)]
    /\ UNCHANGED <<Elsewhere, pe, samples, args, primed, parser, parsing>>

CallPrepare3 ==
    /\ bound.by = "none"
    /\ \E a \in ExemplarLists : \E rng \in RangeOrders(NamesOf(a)) :
          bound' = [by |-> "Prepare3", res |-> Prepare3(pe, a, rng)]
    /\ UNCHANGED <<Elsewhere, pe, samples, args, primed, parser, parsing>>

\* The caller binds the inputs of the type bound statement to some arguments.
CallBindInputs ==
    /\ Succeeded(bound, "BindTypes")
    /\ \E a \in ArgLists : \E rng \in RangeOrders(TypesOf(a)) :
          /\ args' = a
          /\ primed' = [by |-> "BindInputs", res |-> BindInputs(bound.res.val, a, rng)]
    /\ UNCHANGED <<Elsewhere, pe, samples, bound, parser, parsing>>

\* The statements have no slice inputs.
NoSlices == [sliceLens |-> <<>>]

\* The caller asks for the SQL of the prepared statement.
CallSql ==
    /\ Succeeded(bound, "Prepare3")
    /\ args' = <<>>
    /\ primed' = [by |-> "sql",
                  res |-> Ok([outputs |-> bound.res.val.outputs,
                              SQL     |-> sql(bound.res.val, NoSlices)])]
    /\ UNCHANGED <<Elsewhere, pe, samples, bound, parser, parsing>>

\* The caller completes the prepared statement with some arguments.
CallComplete ==
    /\ Succeeded(bound, "Prepare3")
    /\ \E a \in ArgLists :
          /\ args' = a
          /\ primed' = [by |-> "Complete",
                        res |-> Complete([inputs  |-> bound.res.val.inputs,
                                          outputs |-> bound.res.val.outputs,
                                          SQL     |-> sql(bound.res.val, NoSlices)], a)]
    /\ UNCHANGED <<Elsewhere, pe, samples, bound, parser, parsing>>

Next == CallBindTypes \/ CallPrepare3 \/ CallBindInputs \/ CallSql \/ CallComplete

Spec == Init /\ [][Next]_vars

\* ------------------------------------------------------------------
\* The type binders run, and run again, on one statement with one list of
\* exemplars.
\* ------------------------------------------------------------------

\* The statements handed to the type binders alone.
BindStatements == SeqsOf(BypassParts \cup {Input(PERSON, ID)} \cup OutputParts, 1, MaxParts)

InitBind ==
    /\ pe \in BindStatements
    /\ samples \in ExemplarLists
    /\ bound = Nothing
    /\ args = <<>>
    /\ primed = Nothing
    /\ parser = NewParser
    /\ parsing = Idle
    /\ ElsewhereIdle

RunAssemble ==
    /\ bound.by \in {"none", "Assemble"}
    /\ \E rng \in RangeOrders(Tags) :
          bound' = [by |-> "Assemble", res |-> Assemble(pe, samples, rng)]
    /\ UNCHANGED <<Elsewhere, pe, samples, args, primed, parser, parsing>>

RunAssemble2 ==
    /\ bound.by \in {"none", "Assemble2"}
    /\ \E rng \in RangeOrders(Tags) :
          bound' = [by |-> "Assemble2", res |-> Assemble2(pe, samples, rng)]
    /\ UNCHANGED <<Elsewhere, pe, samples, args, primed, parser, parsing>>

RunPrepare ==
    /\ bound.by \in {"none", "Prepare"}
    /\ \E rng \in RangeOrders(NamesOf(samples)) :
          bound' = [by |-> "Prepare", res |-> Prepare(pe, samples, rng)]
    /\ UNCHANGED <<Elsewhere, pe, samples, args, primed, parser, parsing>>

RunBindTypes ==
    /\ bound.by \in {"none", "BindTypes"}
    /\ bound' = [by |-> "BindTypes", res |-> BindTypes(pe, samples)]
    /\ UNCHANGED <<Elsewhere, pe, samples, args, primed, parser, parsing>>

\* The arguments handed to Complete after Assemble.
AssembledArgs == SeqsOf({ArgOf(Person, 1), ArgOf(ShadowPerson, 1), NilArg}, 0, MaxArgs)

\* Complete (package complete) runs on the assembled expression.
RunComplete ==
    /\ Succeeded(bound, "Assemble")
    /\ \E a \in AssembledArgs :
          /\ args' = a
          /\ primed' = [by |-> "Complete", res |-> CompleteAssembled(bound.res.val, a)]
    /\ UNCHANGED <<Elsewhere, pe, samples, bound, parser, parsing>>

NextBind == RunAssemble \/ RunAssemble2 \/ RunPrepare \/ RunBindTypes \/ RunComplete

SpecBind == InitBind /\ [][NextBind]_vars

\* ------------------------------------------------------------------
\* The parser parses one input.
\* ------------------------------------------------------------------

\* The tokens the inputs of the model are made of: quotes, a doubled quote,
\* a backslash, a quote behind a backslash, a space, a name, a digit, a dot,
\* a dollar, an ampersand, an ampersand behind a space, an input, the
\* keyword with the space before it, columns (an asterisk, a list of
\* columns, a list with an asterisk in it) and targets (a star type, a
\* member, a list of members, lists with one and with two star types, the
\* map type).
Tokens ==
    { <<"'">>, <<"'", "'">>, <<"\"">>, <<"\\">>, <<"\\", "'">>, <<" ">>, <<"a">>,
      <<"1">>, <<".">>, <<"$">>, <<"&">>, <<" ", "&">>,
      <<"$">> \o PERSON \o <<".">> \o ID,
      <<" ", "A", "S">>,
      <<"*">>,
      <<"(">> \o NAME \o <<",", " ">> \o ID \o <<")">>,
      <<"(">> \o NAME \o <<",", " ", "*", ")">>,
      <<" ", "&">> \o PERSON \o <<".", "*">>,
      <<" ", "&">> \o PERSON \o <<".">> \o ID,
      <<" ", "&", "(">> \o PERSON \o <<".">> \o NAME \o <<",", " ">>
          \o PERSON \o <<".">> \o ID \o <<")">>,
      <<" ", "&", "(">> \o PERSON \o <<".", "*", ",", " ">>
          \o ADDRESS \o <<".">> \o STREET \o <<")">>,
      <<" ", "&", "(">> \o PERSON \o <<".", "*", ",", " ">>
          \o ADDRESS \o <<".", "*", ")">>,
      <<" ", "&">> \o MAP \o <<".", "*">> }

Inputs == {Join(ts) : ts \in SeqsOf(Tokens, 0, MaxTokens)}

InitParse ==
    /\ pe = <<>>
    /\ samples = <<>>
    /\ bound = Nothing
    /\ args = <<>>
    /\ primed = Nothing
    /\ parser = NewParser
    /\ parsing = Idle
    /\ ElsewhereIdle

Binders == <<pe, samples, bound, args, primed>>

\* Parse is called: the parser is reset and takes the input.
BeginParse ==
    /\ parsing.at = "idle"
    /\ \E input \in Inputs : parser' = init(parser, input)
    /\ parsing' = [parsing EXCEPT !.at = "loop"]
    /\ UNCHANGED <<Binders, Elsewhere>>

\* The turn t of the loop, after which the loop goes on.
ParseTurnOf(t) ==
    /\ t.err = "" /\ ~t.done
    /\ parser' = t.p
    /\ UNCHANGED parsing

\* The last turn t of the loop: the rest of the input is added and Parse
\* returns the parsed expression.
ParseReturnOf(t) ==
    /\ t.err = "" /\ t.done
    /\ parser' = t.p
    /\ parsing' = [parsing EXCEPT !.at = "returned", !.expr = ParsedExpr(t.p.parts),
                                  !.err = "", !.detail = <<>>]

\* A failing turn t after which Parse returns the error together with the
\* parts parsed so far.
ParseFailWithParts(t) ==
    /\ t.err # ""
    /\ parser' = t.p
    /\ parsing' = [parsing EXCEPT !.at = "returned", !.expr = ParsedExpr(t.p.parts),
                                  !.err = t.err, !.detail = t.at]

\* The turn t of the loop in which a parse function fails: Parse returns
\* nil and the error.
ParseFailOf(t) ==
    /\ t.err # ""
    /\ parser' = t.p
    /\ parsing' = [parsing EXCEPT !.at = "returned", !.expr = NilExpr,
                                  !.err = t.err, !.detail = t.at]

ParseTurn ==
    parsing.at = "loop" /\ ParseTurnOf(turn(parser)) /\ UNCHANGED <<Binders, Elsewhere>>
ParseReturn ==
    parsing.at = "loop" /\ ParseReturnOf(turn(parser)) /\ UNCHANGED <<Binders, Elsewhere>>
ParseFail ==
    parsing.at = "loop" /\ ParseFailOf(turn(parser)) /\ UNCHANGED <<Binders, Elsewhere>>

\* The exemplars handed to Prepare with a parsed expression.
ParsedExemplars ==
    SeqsOf({ArgOf(Person, 1), ArgOf(Address, 1), ArgOf(M, 1)}, 0, MaxArgs)

\* Prepare is called with the parsed expression that Parse returned.
PrepareParsed ==
    /\ parsing.at = "returned" /\ parsing.err = ""
    /\ bound.by = "none"
    /\ pe' = queryParts(parsing.expr.QueryParts)
    /\ \E exemplars \in ParsedExemplars :
          /\ samples' = exemplars
          /\ \E rng \in RangeOrders(NamesOf(exemplars)) :
                bound' = [by |-> "Prepare",
                          res |-> Prepare(queryParts(parsing.expr.QueryParts), exemplars, rng)]
    /\ UNCHANGED <<Elsewhere, args, primed, parser, parsing>>

NextParse == BeginParse \/ ParseTurn \/ ParseReturn \/ ParseFail \/ PrepareParsed

SpecParse == InitParse /\ [][NextParse]_vars

\* ------------------------------------------------------------------
\* Statements with slice inputs are bound to types, and the SQL of the
\* prepared ones is written for the lengths of the slices supplied.
\* ------------------------------------------------------------------

MaxElems == 2

SliceTypes == {Ints, Strs}

SliceStatements ==
    SeqsOf(BypassParts \cup {Input(PERSON, ID)} \cup {SliceInput(t.name) : t \in SliceTypes},
           1, MaxParts)

SliceExemplars == SeqsOf({ArgOf(Person, 1)} \cup {ArgOf(t, 1) : t \in SliceTypes}, 0, MaxArgs)

\* The slices a caller supplies: for each slice type a slice of up to
\* MaxElems elements.
SliceValues == [SliceTypes -> SeqsOf(1..MaxElems, 0, MaxElems)]

InitSlice ==
    /\ pe \in SliceStatements
    /\ samples = <<>>
    /\ bound = Nothing
    /\ args = <<>>
    /\ primed = Nothing
    /\ parser = NewParser
    /\ parsing = Idle
    /\ ElsewhereIdle

\* The slice inputs among the first i parts of the statement parts.
SliceInputs(parts, i) == {j \in 1..i : parts[j].kind = "input" /\ parts[j].isSlice}

\* The lengths of the slices supplied for the slice inputs among the
\* members inputs, in the order of the inputs.
RECURSIVE sliceLensOf(_, _)
sliceLensOf(inputs, slices) ==
    IF inputs = <<>> THEN <<>>
    ELSE IF Head(inputs).outerType.kind = "slice"
    THEN <<Len(slices[Head(inputs).outerType])>> \o sliceLensOf(Tail(inputs), slices)
    ELSE sliceLensOf(Tail(inputs), slices)

\* The values of the inputs: the elements of the slice, in their order, for
\* a slice input, and the value of the member for any other.
RECURSIVE inputValues(_, _)
inputValues(inputs, a) ==
    IF inputs = <<>> THEN <<>>
    ELSE IF Head(inputs).outerType.kind = "slice"
    THEN a.slices[Head(inputs).outerType] \o inputValues(Tail(inputs), a)
    ELSE <<FieldValue(a.person, Head(inputs).memberName)>> \o inputValues(Tail(inputs), a)

\* The values as named parameters, numbered from zero.
namedValues(values) == [i \in DOMAIN values |-> Named(sqlairPrefix \o Itoa(i - 1), values[i])]

\* The caller prepares the statement with some exemplars.
PrepareSlices ==
    /\ bound.by = "none"
    /\ \E a \in SliceExemplars : \E rng \in RangeOrders(NamesOf(a)) :
          /\ samples' = a
          /\ bound' = [by |-> "Prepare3", res |-> Prepare3(pe, a, rng)]
    /\ UNCHANGED <<Elsewhere, pe, args, primed, parser, parsing>>

\* The caller binds the statement to the types of some exemplars.
BindSliceTypes ==
    /\ bound.by = "none"
    /\ \E a \in SliceExemplars :
          /\ samples' = a
          /\ bound' = [by |-> "BindTypes", res |-> BindTypes(pe, a)]
    /\ UNCHANGED <<Elsewhere, pe, args, primed, parser, parsing>>

\* The prepared statement is completed with a Person and a slice of each
\* slice type: the SQL is written for the lengths of the slices.
SqlOfSlices ==
    /\ Succeeded(bound, "Prepare3")
    /\ \E slices \in SliceValues :
          /\ args' = [person |-> ArgOf(Person, 1), slices |-> slices]
          /\ primed' = [by |-> "sql",
                        res |-> Ok([outputs |-> bound.res.val.outputs,
                                    SQL     |-> sql(bound.res.val,
                                                    [sliceLens |->
                                                       sliceLensOf(bound.res.val.inputs,
                                                                   slices)]),
                                    params  |-> namedValues(
                                                  inputValues(bound.res.val.inputs,
                                                              args'))])]
    /\ UNCHANGED <<Elsewhere, pe, samples, bound, parser, parsing>>

NextSlice == PrepareSlices \/ BindSliceTypes \/ SqlOfSlices

SpecSlice == InitSlice /\ [][NextSlice]_vars

\* ------------------------------------------------------------------
\* One parser parses one input after another; what the last call of Parse
\* returned is bound to types and then to arguments.
\* ------------------------------------------------------------------

MaxCalls == 2

\* The tokens of the inputs handed to a parser that is used again: a quote,
\* a space, a name, an input, a star target and a list of columns.
CallTokens ==
    { <<"'">>, <<" ">>, <<"a">>,
      <<"$">> \o PERSON \o <<".">> \o ID,
      <<"(">> \o NAME \o <<",", " ">> \o ID \o <<")">>,
      <<" ", "&">> \o PERSON \o <<".", "*">> }

\* Inputs of no token, of one and of two.
CallInputs == {<<>>} \cup CallTokens \cup {t1 \o t2 : t1 \in CallTokens, t2 \in CallTokens}

\* The arguments handed to BindInputs after Parse and BindTypes.
ParsedArgs == SeqsOf({ArgOf(Person, 1), NilArg}, 0, MaxArgs)

\* What the caller keeps of a call of Parse that returned: the input, the
\* expression or the error, and the slice of the parts of the expression.
KeptOfCall ==
    [input |-> parser.input, expr |-> parsing.expr, err |-> parsing.err,
     detail |-> parsing.detail, array |-> parser.array]

\* Parse is called on a parser, new or used: the parser is reset and takes
\* the input.
ParseCall ==
    /\ parsing.at \in {"idle", "returned"}
    /\ bound.by = "none"
    /\ Len(parsing.earlier) + (IF parsing.at = "returned" THEN 1 ELSE 0) < MaxCalls
    /\ \E input \in CallInputs : parser' = init(parser, input)
    /\ parsing' = [at |-> "loop", expr |-> NilExpr, err |-> "", detail |-> <<>>,
                   earlier |-> IF parsing.at = "returned"
                               THEN Append(parsing.earlier, KeptOfCall)
                               ELSE parsing.earlier]
    /\ UNCHANGED <<Binders, Elsewhere>>

\* BindTypes is called with the parsed expression that Parse returned.
BindTypesParsed ==
    /\ parsing.at = "returned" /\ parsing.err = ""
    /\ bound.by = "none"
    /\ pe' = queryParts(parsing.expr.QueryParts)
    /\ \E exemplars \in ParsedExemplars :
          /\ samples' = exemplars
          /\ bound' = [by |-> "BindTypes",
                       res |-> BindTypes(queryParts(parsing.expr.QueryParts), exemplars)]
    /\ UNCHANGED <<Elsewhere, args, primed, parser, parsing>>

\* BindInputs is called on the type bound expression.
BindInputsParsed ==
    /\ Succeeded(bound, "BindTypes")
    /\ \E a \in ParsedArgs : \E rng \in RangeOrders(TypesOf(a)) :
          /\ args' = a
          /\ primed' = [by |-> "BindInputs", res |-> BindInputs(bound.res.val, a, rng)]
    /\ UNCHANGED <<Elsewhere, pe, samples, bound, parser, parsing>>

NextCalls ==
    \/ ParseCall \/ ParseTurn \/ ParseReturn \/ ParseFail
    \/ PrepareParsed \/ BindTypesParsed \/ BindInputsParsed

SpecCalls == InitParse /\ [][NextCalls]_vars

\* ------------------------------------------------------------------
\* Concurrent calls of TypeInfo on a cache that is filled on a miss, once
\* for each type.
\* ------------------------------------------------------------------

MaxCallers == 3

Callers == 1..MaxCallers

CachedTypes == {Person, Address}

\* The information that the call of the caller c makes for the type t.
generateInfo(t, c) == [typ |-> t, tags |-> FieldTags(t), madeBy |-> c]

\* The cache after the entry info is stored for the type t whatever the
\* cache holds.
storeAlways(entries, t, info) ==
    [x \in DOMAIN entries \cup {t} |-> IF x = t THEN info ELSE entries[x]]

\* The cache after a store for the type t: the first entry stored for a type
\* stays.
storeOnce(entries, t, info) ==
    IF t \in DOMAIN entries THEN entries
    ELSE [x \in DOMAIN entries \cup {t} |-> IF x = t THEN info ELSE entries[x]]

NotCalling == [at |-> "idle", typ |-> NilType, info |-> <<>>, made |-> FALSE]

InitCache ==
    /\ pe = <<>>
    /\ samples = <<>>
    /\ bound = Nothing
    /\ args = <<>>
    /\ primed = Nothing
    /\ parser = NewParser
    /\ parsing = Idle
    /\ cache = <<>>
    /\ callers = [c \in Callers |-> NotCalling]
    /\ txn = <<>>

Statement == <<pe, samples, bound, args, primed, parser, parsing>>

\* The caller c calls TypeInfo with a value of some type and looks the type
\* up under the read lock: on a hit the call returns the entry.
TypeInfoLookup(c) ==
    /\ callers[c].at = "idle"
    /\ \E t \in CachedTypes :
          callers' = [callers EXCEPT ![c] =
                        IF t \in DOMAIN cache
                        THEN [at |-> "returned", typ |-> t, info |-> cache[t], made |-> FALSE]
                        ELSE [at |-> "missed", typ |-> t, info |-> <<>>, made |-> FALSE]]
    /\ UNCHANGED <<Statement, cache, txn>>

\* After a miss the caller c makes the information of the type, outside
\* the lock.
TypeInfoGenerate(c) ==
    /\ callers[c].at = "missed"
    /\ callers' = [callers EXCEPT ![c] =
                     [at |-> "made", typ |-> @.typ, info |-> generateInfo(@.typ, c),
                      made |-> TRUE]]
    /\ UNCHANGED <<Statement, cache, txn>>

\* Under the write lock the caller c stores what it made, unless another
\* call has stored an entry for the type, and returns the entry of the
\* cache.
TypeInfoStore(c) ==
    /\ callers[c].at = "made"
    /\ cache' = storeOnce(cache, callers[c].typ, callers[c].info)
    /\ callers' = [callers EXCEPT ![c] =
                     [@ EXCEPT !.at = "returned", !.info = cache'[callers[c].typ]]]
    /\ UNCHANGED <<Statement, txn>>

\* The caller c is done with what TypeInfo returned, and can call again.
TypeInfoDone(c) ==
    /\ callers[c].at = "returned"
    /\ callers' = [callers EXCEPT ![c] = NotCalling]
    /\ UNCHANGED <<Statement, cache, txn>>

NextCache ==
    \E c \in Callers :
        TypeInfoLookup(c) \/ TypeInfoGenerate(c) \/ TypeInfoStore(c) \/ TypeInfoDone(c)

SpecCache == InitCache /\ [][NextCache]_vars

\* ------------------------------------------------------------------
\* TransactionRunner.Txn: a transaction is begun, the function runs in it,
\* and the transaction is committed or rolled back.
\* ------------------------------------------------------------------

MaxTxns == 2
MaxAttempts == 3

ErrTXDone   == "sql: transaction has already been committed or rolled back"
ErrLocked   == "database is locked"
ErrNoRows   == "sql: no rows in result set"
ErrFn       == "fn failed"
ErrBegin    == "cannot begin"

\* IsErrRetryable: whether the error may be transient.
IsErrRetryable(err) == err = ErrLocked

\* IsFatalError of the default retry strategy.
IsFatalError(err) == err = ErrNoRows \/ ~IsErrRetryable(err)

\* No call of Txn in progress; earlier holds the calls that returned.
NoTxn ==
    [at |-> "idle", begun |-> FALSE, fnErr |-> "", commits |-> 0, rollbacks |-> 0,
     rollbackErr |-> "", commitErr |-> "", ret |-> "", earlier |-> <<>>]

\* Txn after db.Begin returned err.
afterBegin(t, err) ==
    IF err # "" THEN [t EXCEPT !.at = "returned", !.ret = err]
    ELSE [t EXCEPT !.at = "begun", !.begun = TRUE]

\* Txn after fn returned err.
afterFn(t, err) ==
    IF err # "" THEN [t EXCEPT !.at = "rollback", !.fnErr = err]
    ELSE [t EXCEPT !.at = "commit"]

\* A rollback whose error Txn returns in the place of the error of fn.
afterRollbackOwnError(t, err) ==
    IF err # "" /\ ~IsFatalError(err) /\ t.rollbacks + 1 < MaxAttempts
    THEN [t EXCEPT !.rollbacks = @ + 1, !.rollbackErr = err]
    ELSE [t EXCEPT !.rollbacks = @ + 1, !.rollbackErr = err, !.at = "returned",
                   !.ret = IF err # "" THEN err ELSE t.fnErr]

\* Txn after an attempt of the retry strategy at tx.Rollback returned err:
\* the strategy tries again after an error that is not fatal while it has
\* attempts left; after that Txn returns the error of fn.
afterRollback(t, err) ==
    IF err # "" /\ ~IsFatalError(err) /\ t.rollbacks + 1 < MaxAttempts
    THEN [t EXCEPT !.rollbacks = @ + 1, !.rollbackErr = err]
    ELSE [t EXCEPT !.rollbacks = @ + 1, !.rollbackErr = err, !.at = "returned",
                   !.ret = t.fnErr]

\* Txn after tx.Commit returned err.
afterCommit(t, err) ==
    [t EXCEPT !.commits = @ + 1, !.commitErr = err, !.at = "returned",
              !.ret = IF err # "" /\ err # ErrTXDone THEN err ELSE ""]

InitTxn ==
    /\ pe = <<>>
    /\ samples = <<>>
    /\ bound = Nothing
    /\ args = <<>>
    /\ primed = Nothing
    /\ parser = NewParser
    /\ parsing = Idle
    /\ cache = <<>>
    /\ callers = <<>>
    /\ txn = NoTxn

\* Txn is called and begins a transaction.
TxnBegin ==
    /\ txn.at = "idle"
    /\ \E err \in {"", ErrBegin, ErrLocked} : txn' = afterBegin(txn, err)
    /\ UNCHANGED <<Statement, cache, callers>>

\* fn runs in the transaction and returns.
TxnFn ==
    /\ txn.at = "begun"
    /\ \E err \in {"", ErrFn, ErrNoRows} : txn' = afterFn(txn, err)
    /\ UNCHANGED <<Statement, cache, callers>>

\* The retry strategy calls tx.Rollback.
TxnRollback ==
    /\ txn.at = "rollback"
    /\ \E err \in {"", ErrLocked, ErrTXDone} : txn' = afterRollback(txn, err)
    /\ UNCHANGED <<Statement, cache, callers>>

\* Txn calls tx.Commit.
TxnCommit ==
    /\ txn.at = "commit"
    /\ \E err \in {"", ErrTXDone, ErrLocked} : txn' = afterCommit(txn, err)
    /\ UNCHANGED <<Statement, cache, callers>>

\* Txn has returned; the runner is free for the next call.
TxnReturned ==
    /\ txn.at = "returned"
    /\ Len(txn.earlier) + 1 < MaxTxns
    /\ txn' = [NoTxn EXCEPT !.earlier = Append(txn.earlier, [txn EXCEPT !.earlier = <<>>])]
    /\ UNCHANGED <<Statement, cache, callers>>

NextTxn == TxnBegin \/ TxnFn \/ TxnRollback \/ TxnCommit \/ TxnReturned

SpecTxn == InitTxn /\ [][NextTxn]_vars

\* ------------------------------------------------------------------
\* What the properties speak of.
\* ------------------------------------------------------------------

\* The parts of kind k of a statement, in order.
PartsOfKind(stmt, k) == SelectIdx(stmt, {i \in DOMAIN stmt : stmt[i].kind = k})

\* The output columns of the typed or prepared parts, over all parts, in order.
RECURSIVE AllOutputColumns(_)
AllOutputColumns(typed) ==
    IF typed = <<>> THEN <<>>
    ELSE (IF Head(typed).kind = "output" THEN Head(typed).outputColumns ELSE <<>>)
         \o AllOutputColumns(Tail(typed))

\* The places where the text p occurs in the text str.
Occ(str, p) == {i \in 1..(Len(str) - Len(p) + 1) : SubSeq(str, i, i + Len(p) - 1) = p}

\* The digits that follow each other in str from the place i on.
RECURSIVE DigitRun(_, _)
DigitRun(str, i) ==
    IF i <= Len(str) /\ (\E d \in DOMAIN Digits : Digits[d] = str[i])
    THEN <<str[i]>> \o DigitRun(str, i + 1)
    ELSE <<>>

\* How many places of the set S lie to the left of the place i.
Rank(S, i) == Cardinality({j \in S : j < i})

\* In the text str, the k-th occurrence of the prefix p from the left,
\* counted from 0, is followed by the number k and nothing more.
NumberedInOrder(str, p) ==
    \A i \in Occ(str, p) : DigitRun(str, i + Len(p)) = Itoa(Rank(Occ(str, p), i))

\* The SQL text and the outputs a successful input binding returned.
PrimedSQL ==
    IF primed.by = "BindInputs" THEN primed.res.val.sql ELSE primed.res.val.SQL
PrimedOutputs == primed.res.val.outputs
PrimedParams ==
    IF primed.by = "BindInputs" THEN primed.res.val.params ELSE primed.res.val.Args

Primed == primed.by # "none" /\ primed.res.err = ""

\* The members of the inputs of the bound statement, from the left.
BoundInputs ==
    IF bound.by = "Prepare3" THEN bound.res.val.inputs
    ELSE [i \in DOMAIN PartsOfKind(bound.res.val, "input") |->
             PartsOfKind(bound.res.val, "input")[i].input]

\* The texts of the output columns of the bound statement, part by part.
BoundColumnTexts ==
    [i \in DOMAIN pe |->
        IF pe[i].kind # "output" THEN <<>>
        ELSE IF bound.by = "Prepare3"
        THEN [j \in DOMAIN bound.res.val.outputCols[i] |->
                 ColString(bound.res.val.outputCols[i][j])]
        ELSE [j \in DOMAIN bound.res.val[i].outputColumns |->
                 bound.res.val[i].outputColumns[j].sql]]

\* ------------------------------------------------------------------
\* Properties of the type binders (SpecBind).
\* ------------------------------------------------------------------

DuplicateOutput == "appears more than once in output expressions"

\* The binder that ran is BindTypes or Prepare.
ByBinder == bound.by \in {"BindTypes", "Prepare"}

\* The members one output part yields when it is bound on its own.
YieldOf(p) ==
    LET ti   == typeNameToInfo(samples, NoTypes)
        cols == IF ti.err # "" THEN <<>>
                ELSE IF bound.by = "BindTypes"
                THEN LET toe == bindOutputTypes(p, ti.val)
                     IN  IF toe.err # "" THEN <<>> ELSE toe.val.outputColumns
                ELSE prepareOutput(ti.val, p, <<>>).val
    IN  [j \in DOMAIN cols |-> cols[j].tm]

\* The members the output parts of the statement yield, over all parts.
RECURSIVE YieldOfAll(_)
YieldOfAll(stmt) ==
    IF stmt = <<>> THEN <<>>
    ELSE (IF Head(stmt).kind = "output" THEN YieldOf(Head(stmt)) ELSE <<>>)
         \o YieldOfAll(Tail(stmt))

\* The members of the output columns of the bound statement.
BoundMembers ==
    [k \in DOMAIN AllOutputColumns(bound.res.val) |->
        AllOutputColumns(bound.res.val)[k].tm]

Rendered == primed.by \in {"BindInputs", "sql", "Complete"} /\ primed.res.err = ""
Filled   == primed.by \in {"BindInputs", "Complete"} /\ primed.res.err = ""

\* The number a run of digits writes.
RECURSIVE Atoi(_)
Atoi(ds) ==
    IF ds = <<>> THEN 0
    ELSE 10 * Atoi(SubSeq(ds, 1, Len(ds) - 1))
         + (CHOOSE d \in 0..9 : Digits[d + 1] = ds[Len(ds)])

\* The text of the output columns of the bound statement, over all parts.
ColumnTexts == Join(BoundColumnTexts)

\* C2: in the SQL of a bound statement the k-th input placeholder from the
\* left is @sqlair_k and the k-th output alias from the left is _sqlair_k,
\* both counted from 0 without gap or repeat, however inputs and outputs
\* interleave; there is one placeholder for each input and one alias for
\* each output column.
C2_PlaceholdersNumbered ==
    Rendered =>
        /\ NumberedInOrder(PrimedSQL, inputPrefix)
        /\ NumberedInOrder(PrimedSQL, markerPrefix)
        /\ Cardinality(Occ(PrimedSQL, inputPrefix)) = Len(PartsOfKind(pe, "input"))
        /\ Cardinality(Occ(PrimedSQL, markerPrefix)) = Len(ColumnTexts)

\* An input, some output columns and a second input were rendered.
C2_Witness ==
    /\ Succeeded(primed, "BindInputs")
    /\ Len(pe) = 3
    /\ pe[1].kind = "input" /\ pe[2].kind = "output" /\ pe[3].kind = "input"
    /\ Len(ColumnTexts) >= 2

\* The argument of the outer type t among the arguments.
ArgFor(t) == CHOOSE v \in {args[i] : i \in DOMAIN args} : v.typ = t

AfterDot(text) ==
    LET dots == {i \in DOMAIN text : text[i] = "."}
    IN  IF dots = {} THEN text
        ELSE SubSeq(text, (CHOOSE i \in dots : \A j \in dots : j <= i) + 1, Len(text))

\* The type and member the statement binds the j-th column of its output
\* part p to, text being the text of the column.
TargetOf(p, j, text) ==
    LET tgt == IF Len(p.targetTypes) = 1 THEN p.targetTypes[1] ELSE p.targetTypes[j]
    IN  [typeName   |-> tgt.typeName,
         memberName |-> IF tgt.memberName = STAR THEN AfterDot(text) ELSE tgt.memberName]

\* The targets of the output columns of the bound statement, over all parts.
ColumnTargets ==
    Join([i \in DOMAIN pe |->
            [j \in DOMAIN BoundColumnTexts[i] |->
                TargetOf(pe[i], j, BoundColumnTexts[i][j])]])

\* C4: there are as many outputs as output columns in the SQL, and for
\* every k the column aliased _sqlair_k is the k-th output column of the
\* statement and outputs[k] is the member that column is bound to.
C4_OutputsAligned ==
    Rendered =>
        LET aliases == Occ(PrimedSQL, markerPrefix) IN
        /\ Len(PrimedOutputs) = Cardinality(aliases)
        /\ Len(PrimedOutputs) = Len(ColumnTexts)
        /\ \A i \in aliases :
              LET k    == Rank(aliases, i)
                  n    == Atoi(DigitRun(PrimedSQL, i + Len(markerPrefix)))
                  text == ColumnTexts[k + 1] \o asText
              IN  /\ n < Len(PrimedOutputs)
                  /\ i > Len(text)
                  /\ SubSeq(PrimedSQL, i - Len(text), i - 1) = text
                  /\ PrimedOutputs[n + 1].outerType.name = ColumnTargets[k + 1].typeName
                  /\ PrimedOutputs[n + 1].memberName = ColumnTargets[k + 1].memberName

\* The SQL of a prepared statement with two output parts, of two types,
\* that have three output columns or more.
C4_Witness ==
    /\ Succeeded(primed, "sql")
    /\ Len(PartsOfKind(pe, "output")) >= 2
    /\ Len(PrimedOutputs) >= 3
    /\ \E i, j \in DOMAIN PrimedOutputs :
          PrimedOutputs[i].outerType # PrimedOutputs[j].outerType

\* The types of the inputs of the bound statement.
InputTypes == {BoundInputs[i].outerType : i \in DOMAIN BoundInputs}

\* C5: BindInputs fails whenever the type of some input has no argument,
\* and whenever the type of some argument is the type of no input: when it
\* succeeds, the types of the arguments are the types of the inputs.
C5_InputConservation ==
    primed.by = "BindInputs" =>
        /\ (\E t \in InputTypes : t \notin TypesOf(args)) => primed.res.err # ""
        /\ (\E t \in TypesOf(args) : t \notin InputTypes) => primed.res.err # ""
        /\ primed.res.err = "" => TypesOf(args) = InputTypes

\* BindInputs turned down an argument no input refers to, every input
\* having its argument.
C5_Witness ==
    /\ primed.by = "BindInputs"
    /\ primed.res.err = "not referenced in query"
    /\ InputTypes # {}
    /\ InputTypes \subseteq TypesOf(args)

\* ------------------------------------------------------------------
\* Properties of the columns the type binders emit (SpecBind).
\* ------------------------------------------------------------------

\* The type the binders take for the type name: Prepare accepts one
\* exemplar of a name, Assemble keeps the last one.
SampleType(typeName) ==
    LET K == {i \in DOMAIN samples : samples[i].typ.name = typeName}
    IN  samples[CHOOSE i \in K : \A j \in K : j <= i].typ

\* The tags of the type t in ascending order.
SortedTags(t) ==
    CHOOSE s \in Orders(TagsOf(t)) :
        \A i, j \in DOMAIN s : i < j => StrLess(s[i], s[j])

\* Texts with a comma and a space between them.
RECURSIVE Commas(_)
Commas(texts) ==
    IF texts = <<>> THEN <<>>
    ELSE IF Len(texts) = 1 THEN texts[1]
    ELSE texts[1] \o <<",", " ">> \o Commas(Tail(texts))

\* An output part &T.* without columns, or with the one column * or t.*.
StarForm(p) ==
    /\ p.kind = "output"
    /\ Len(p.targetTypes) = 1 /\ p.targetTypes[1].memberName = STAR
    /\ \/ p.sourceColumns = <<>>
       \/ Len(p.sourceColumns) = 1 /\ p.sourceColumns[1].columnName = STAR

\* An output part (c1, ..., cn) AS &T.* with explicit columns.
ExplicitForm(p) ==
    /\ p.kind = "output"
    /\ Len(p.targetTypes) = 1 /\ p.targetTypes[1].memberName = STAR
    /\ Len(p.sourceColumns) >= 1
    /\ \A j \in DOMAIN p.sourceColumns : p.sourceColumns[j].columnName # STAR

\* The columns the star part p stands for: one for each tag of its type, in
\* ascending order of the tags, behind the table name of the part if it
\* has one.
StarColumns(p) ==
    LET st   == SortedTags(SampleType(p.targetTypes[1].typeName))
        pref == IF p.sourceColumns = <<>> THEN <<>> ELSE p.sourceColumns[1].tableName
    IN  [j \in DOMAIN st |-> IF pref = <<>> THEN st[j] ELSE pref \o <<".">> \o st[j]]

\* The columns of the explicit part p as the source wrote them.
SourceColumns(p) == [j \in DOMAIN p.sourceColumns |-> ColString(p.sourceColumns[j])]

\* The SQL of a statement whose output parts stand for the columns cols(p).
StatementText(cols(_)) ==
    Join([i \in DOMAIN pe |->
            IF pe[i].kind = "bypass" THEN pe[i].chunk
            ELSE IF pe[i].kind = "input" THEN <<"?">>
            ELSE Commas(cols(pe[i]))])

\* The same binder ran once more, or for the first time.
Rerun == bound.by # "none" => bound' = bound

\* C6: two runs of a type binder on the same statement with the same
\* exemplars return the same result, SQL and columns included, whatever
\* order the runs range over the tags of a type or the types in.
C6_StarDeterminism == [][Rerun]_vars

\* Assemble expanded the star of a type with three tags.
C6_Witness ==
    /\ Succeeded(bound, "Assemble")
    /\ \E i \in DOMAIN pe :
          /\ StarForm(pe[i])
          /\ Cardinality(TagsOf(SampleType(pe[i].targetTypes[1].typeName))) = 3

\* C7: the star part &T.*, without columns or with the one column * or t.*,
\* is bound to one column for each tag of T, in ascending order of the tags,
\* each behind the table name if there is one, and each column to the member
\* of T with its tag.
C7_StarColumnsSorted ==
    /\ Succeeded(bound, "Prepare") =>
          \A i \in DOMAIN pe : StarForm(pe[i]) =>
              LET T    == SampleType(pe[i].targetTypes[1].typeName)
                  cols == bound.res.val[i].outputColumns
              IN  /\ [j \in DOMAIN cols |-> cols[j].sql] = StarColumns(pe[i])
                  /\ \A j \in DOMAIN cols : cols[j].tm = Member(T, SortedTags(T)[j])
    /\ (Succeeded(bound, "Assemble")
        /\ \A i \in DOMAIN pe : pe[i].kind = "output" => StarForm(pe[i])) =>
          bound.res.val.SQL = TrimSpace(StatementText(StarColumns))

\* Assemble expanded a.* AS &Address.* in a statement with a second star.
C7_Witness ==
    /\ Succeeded(bound, "Assemble")
    /\ \A i \in DOMAIN pe : pe[i].kind = "output" => StarForm(pe[i])
    /\ \E i, j \in DOMAIN pe :
          /\ pe[i] = Output(<<Col(TABLE, STAR)>>, <<Tgt(ADDRESS, STAR)>>)
          /\ pe[j] = Output(<<>>, <<Tgt(PERSON, STAR)>>)

\* C8: the part (c1, ..., cn) AS &T.* is bound to its n columns in the
\* order of the source, each as written and each to the member of T with
\* the tag of its name, and the binding fails when a column is no tag of T.
C8_ExplicitColumnsInSourceOrder ==
    /\ Succeeded(bound, "Prepare") =>
          \A i \in DOMAIN pe : ExplicitForm(pe[i]) =>
              LET T    == SampleType(pe[i].targetTypes[1].typeName)
                  cols == bound.res.val[i].outputColumns
              IN  /\ [j \in DOMAIN cols |-> cols[j].sql] = SourceColumns(pe[i])
                  /\ \A j \in DOMAIN cols :
                        cols[j].tm = Member(T, pe[i].sourceColumns[j].columnName)
    /\ (Succeeded(bound, "Assemble2")
        /\ \A i \in DOMAIN pe : pe[i].kind = "output" => ExplicitForm(pe[i])) =>
          bound.res.val.SQL = TrimSpace(StatementText(SourceColumns))
    /\ (bound.by \in {"Prepare", "Assemble2"}
        /\ \E i \in DOMAIN pe :
              /\ ExplicitForm(pe[i])
              /\ \E j \in DOMAIN pe[i].sourceColumns : \A k \in DOMAIN samples :
                    samples[k].typ.name = pe[i].targetTypes[1].typeName =>
                        pe[i].sourceColumns[j].columnName \notin TagsOf(samples[k].typ)) =>
          bound.res.err # ""

\* ------------------------------------------------------------------
\* Properties of the parser (SpecParse).
\* ------------------------------------------------------------------

\* Parse returned a parsed expression.
Returned == parsing.at = "returned" /\ parsing.err = ""

QueryParts == parsing.expr.QueryParts

\* The text of the input the k-th part was made from.
SpanText(k) == Slice(parser.input, parser.spans[k][1], parser.spans[k][2])

\* A text without its spaces and parentheses, in lower case.
RECURSIVE Bare(_)
Bare(text) ==
    IF text = <<>> THEN <<>>
    ELSE (IF Head(text) \in {" ", "(", ")"} THEN <<>> ELSE <<Fold(Head(text))>>)
         \o Bare(Tail(text))

\* Names with a comma between them.
RECURSIVE NameList(_)
NameList(fns) ==
    IF fns = <<>> THEN <<>>
    ELSE (IF Head(fns).Prefix = <<>> THEN Head(fns).Name
          ELSE Head(fns).Prefix \o <<".">> \o Head(fns).Name)
         \o (IF Len(fns) > 1 THEN <<",">> ELSE <<>>) \o NameList(Tail(fns))

\* What a part says, without spaces and parentheses, in lower case.
PartText(part) ==
    IF part.kind = "bypass" THEN Bare(part.Chunk)
    ELSE IF part.kind = "input" THEN Bare(<<"$">> \o NameList(<<part.Source>>))
    ELSE Bare((IF part.Source = <<>> THEN <<>> ELSE NameList(part.Source) \o <<"A", "S">>)
              \o <<"&">> \o NameList(part.Target))

\* C9: after Parse returned a parsed expression, the parts were made from
\* spans of the input that follow each other without gap or overlap from
\* offset 0 to the length of the input; the chunk of every bypass part is
\* the text of its span, every input and output part says what the text of
\* its span says, and the texts of the spans joined are the input.
C9_Reconstruction ==
    Returned =>
        /\ Len(parser.spans) = Len(QueryParts)
        /\ QueryParts = <<>> => parser.input = <<>>
        /\ QueryParts # <<>> =>
              /\ parser.spans[1][1] = 0
              /\ parser.spans[Len(parser.spans)][2] = Len(parser.input)
        /\ \A k \in DOMAIN parser.spans : parser.spans[k][1] < parser.spans[k][2]
        /\ \A k \in 1..(Len(parser.spans) - 1) :
              parser.spans[k][2] = parser.spans[k + 1][1]
        /\ \A k \in DOMAIN QueryParts :
              /\ QueryParts[k].kind = "bypass" => QueryParts[k].Chunk = SpanText(k)
              /\ PartText(QueryParts[k]) = Bare(SpanText(k))
        /\ Join([k \in DOMAIN QueryParts |-> SpanText(k)]) = parser.input

\* Parse returned a bypass part, an input part and an output part.
C9_Witness ==
    /\ Returned
    /\ Len(QueryParts) >= 3
    /\ \A kind \in {"bypass", "input", "output"} :
          \E k \in DOMAIN QueryParts : QueryParts[k].kind = kind

Quotes == {"'", "\""}

\* The offset behind the quote that closes the string literal of the quote
\* c, looked for from the offset j on: a doubled quote does not close. -1
\* when no quote closes the literal.
RECURSIVE LiteralEnd(_, _, _)
LiteralEnd(input, j, c) ==
    IF j >= Len(input) THEN -1
    ELSE IF input[j + 1] # c THEN LiteralEnd(input, j + 1, c)
    ELSE IF j + 1 < Len(input) /\ input[j + 2] = c THEN LiteralEnd(input, j + 2, c)
    ELSE j + 1

\* The spans of the string literals of the input from the offset i on.
RECURSIVE Literals(_, _)
Literals(input, i) ==
    IF i >= Len(input) THEN {}
    ELSE IF input[i + 1] \notin Quotes THEN Literals(input, i + 1)
    ELSE LET e == LiteralEnd(input, i + 1, input[i + 1])
         IN  IF e = -1 THEN {} ELSE {<<i, e>>} \cup Literals(input, e)

\* C10: a doubled quote inside a string literal does not close it: after
\* Parse returned a parsed expression, every string literal of the input,
\* doubled quotes included, lies in one bypass part.
C10_DoubledQuoteInsideLiteral ==
    Returned =>
        \A lit \in Literals(parser.input, 0) :
            \E k \in DOMAIN QueryParts :
                /\ QueryParts[k].kind = "bypass"
                /\ parser.spans[k][1] <= lit[1]
                /\ lit[2] <= parser.spans[k][2]

\* The offset of the quote that opens the first string literal of the input,
\* from the offset i on, that no quote closes; -1 when every literal is
\* closed.
RECURSIVE Unterminated(_, _)
Unterminated(input, i) ==
    IF i >= Len(input) THEN -1
    ELSE IF input[i + 1] \notin Quotes THEN Unterminated(input, i + 1)
    ELSE IF LiteralEnd(input, i + 1, input[i + 1]) = -1 THEN i
    ELSE Unterminated(input, LiteralEnd(input, i + 1, input[i + 1]))

\* C11: when a string literal of the input is opened and never closed,
\* Parse fails, and the error of the missing quote names the offset of the
\* quote that opens that literal.
C11_UnterminatedLiteralError ==
    (parsing.at = "returned" /\ Unterminated(parser.input, 0) # -1) =>
        /\ parsing.err # ""
        /\ parsing.err = missingRightQuote =>
              parsing.detail = Unterminated(parser.input, 0)

\* Whether the k-th part was made from text that lies, in part or in
\* whole, inside the span lit.
Overlaps(k, lit) == parser.spans[k][1] < lit[2] /\ lit[1] < parser.spans[k][2]

\* C12: after Parse returned a parsed expression, no input part and no
\* output part was made from text inside a string literal of the input.
C12_NoMarkerInsideLiteral ==
    Returned =>
        \A k \in DOMAIN QueryParts :
            QueryParts[k].kind \in {"input", "output"} =>
                \A lit \in Literals(parser.input, 0) : ~Overlaps(k, lit)

\* Whether an identifier can begin with the byte c: a letter or an
\* underscore.
IdentifierStart(c) == isNameByte(c) /\ ~\E i \in DOMAIN Digits : Digits[i] = c

Whitespace == {" ", "\t", "\r", "\n"}

\* Whether the dollar at the offset i of the input is a marker: an
\* identifier follows it at once.
DollarMarker(input, i) ==
    input[i + 1] = "$" /\ i + 1 < Len(input) /\ IdentifierStart(input[i + 2])

\* Whether the ampersand at the offset i of the input is a marker:
\* whitespace precedes it and an identifier or a parenthesis follows it.
AmpersandMarker(input, i) ==
    /\ input[i + 1] = "&"
    /\ i > 0 /\ input[i] \in Whitespace
    /\ i + 1 < Len(input) /\ (IdentifierStart(input[i + 2]) \/ input[i + 2] = "(")

\* The offsets of the dollars and ampersands of the input that are not
\* markers.
NotMarkers(input) ==
    {i \in 0..(Len(input) - 1) :
        /\ input[i + 1] \in {"$", "&"}
        /\ ~DollarMarker(input, i)
        /\ ~AmpersandMarker(input, i)}

\* The offsets of the dollars and ampersands of the input that are markers.
Markers(input) ==
    {i \in 0..(Len(input) - 1) : DollarMarker(input, i) \/ AmpersandMarker(input, i)}

\* C13: a dollar that no identifier follows at once, and an ampersand that
\* whitespace does not precede or that neither an identifier nor a
\* parenthesis follows, are no markers: Parse does not fail on an input
\* whose dollars and ampersands are all of this kind unless a string literal
\* is not closed, and after Parse returned a parsed expression every such
\* dollar and ampersand lies in a bypass part.
C13_NotMarkersStayBypass ==
    parsing.at = "returned" =>
        /\ Markers(parser.input) = {} => parsing.err \in {"", missingRightQuote}
        /\ Returned =>
              \A i \in NotMarkers(parser.input) :
                  \E k \in DOMAIN QueryParts :
                      /\ QueryParts[k].kind = "bypass"
                      /\ parser.spans[k][1] <= i /\ i < parser.spans[k][2]

\* The offset behind the type name of the marker at the offset i.
TypeNameEnd(input, i) == skipWhile(input, i + 1, NameBytes(input))

\* Whether the marker at the offset i names a type and no dot follows the
\* type name.
Unqualified(input, i) ==
    /\ i + 1 < Len(input) /\ IdentifierStart(input[i + 2])
    /\ (TypeNameEnd(input, i) >= Len(input) \/ input[TypeNameEnd(input, i) + 1] # ".")

\* Whether the marker at the offset i names a type and behind the dot that
\* follows the type name there is neither a name nor an asterisk.
NoMember(input, i) ==
    /\ i + 1 < Len(input) /\ IdentifierStart(input[i + 2])
    /\ TypeNameEnd(input, i) < Len(input) /\ input[TypeNameEnd(input, i) + 1] = "."
    /\ (TypeNameEnd(input, i) + 1 >= Len(input)
        \/ ~(isNameByte(input[TypeNameEnd(input, i) + 2])
             \/ input[TypeNameEnd(input, i) + 2] = "*"))

\* The offset of the first marker of an input that has markers.
FirstMarker(input) == CHOOSE i \in Markers(input) : \A j \in Markers(input) : i <= j

\* An input without quotes in which no digit follows a dollar or an
\* ampersand, and which has a marker.
PlainMarked(input) ==
    /\ \A i \in DOMAIN input : input[i] \notin Quotes
    /\ \A i \in 1..(Len(input) - 1) :
          input[i] \in {"$", "&"} => ~\E d \in DOMAIN Digits : Digits[d] = input[i + 1]
    /\ Markers(input) # {}

ParsedAndBound == Returned /\ Succeeded(bound, "Prepare")

\* An output part with source columns none of which is an asterisk.
ExplicitColumns(p) ==
    /\ p.kind = "output"
    /\ p.sourceColumns # <<>>
    /\ starCountColumns(p.sourceColumns) = 0

\* An output part whose only target is a star type.
StarTarget(p) == Len(p.targetTypes) = 1 /\ p.targetTypes[1].memberName = STAR

\* The output columns that bind the i-th source column of the part p to
\* the i-th target of p.
PairedColumns(p) ==
    [i \in DOMAIN p.sourceColumns |->
        [sql |-> ColString(p.sourceColumns[i]),
         tm  |-> Member(SampleType(p.targetTypes[i].typeName), p.targetTypes[i].memberName)]]

\* The output columns that bind every source column of the part p to the
\* member of its name of the one star type of p.
NamedColumns(p) ==
    [i \in DOMAIN p.sourceColumns |->
        [sql |-> ColString(p.sourceColumns[i]),
         tm  |-> Member(SampleType(p.targetTypes[1].typeName),
                        p.sourceColumns[i].columnName)]]

\* C15: an output expression with explicit source columns and explicit
\* targets is parsed only when there are as many columns as targets, and
\* Prepare then binds the i-th column to the i-th target; under a single
\* star target Prepare binds the explicit columns, however many there are,
\* to the members of their names.
C15_ColumnsMatchTargets ==
    /\ Returned =>
          \A k \in DOMAIN QueryParts :
              (/\ ExplicitColumns(queryPart(QueryParts[k]))
               /\ starCount(QueryParts[k].Target) = 0)
              => Len(QueryParts[k].Source) = Len(QueryParts[k].Target)
    /\ ParsedAndBound =>
          \A k \in DOMAIN pe :
              ExplicitColumns(pe[k]) =>
                  /\ starCountTypes(pe[k].targetTypes) = 0 =>
                        /\ Len(pe[k].sourceColumns) = Len(pe[k].targetTypes)
                        /\ bound.res.val[k].outputColumns = PairedColumns(pe[k])
                  /\ StarTarget(pe[k]) =>
                        bound.res.val[k].outputColumns = NamedColumns(pe[k])

\* Prepare bound a parsed expression in which two explicit columns stand
\* before two explicit targets.
C15_Witness ==
    /\ ParsedAndBound
    /\ \E k \in DOMAIN pe :
          /\ ExplicitColumns(pe[k])
          /\ starCountTypes(pe[k].targetTypes) = 0
          /\ Len(pe[k].sourceColumns) = 2

\* The text of a list of targets with two star types, and the texts that
\* stand before it: nothing, an asterisk, a list of explicit columns.
TwoStarTargets ==
    <<" ", "&", "(">> \o PERSON \o <<".", "*", ",", " ">> \o ADDRESS \o <<".", "*", ")">>

SourceTexts ==
    { <<>>,
      <<"*", " ", "A", "S">>,
      <<"(">> \o NAME \o <<",", " ">> \o ID \o <<")", " ", "A", "S">> }

MixedColumns(p) ==
    /\ p.kind = "output"
    /\ Len(p.sourceColumns) > 1
    /\ starCountColumns(p.sourceColumns) >= 1

\* The text of a list of columns with an asterisk in it, and the texts of
\* the targets that stand behind it: a star type, the map type, a list of
\* members.
MixedColumnsText == <<"(">> \o NAME \o <<",", " ", "*", ")", " ", "A", "S">>

TargetTexts ==
    { <<" ", "&">> \o PERSON \o <<".", "*">>,
      <<" ", "&">> \o MAP \o <<".", "*">>,
      <<" ", "&", "(">> \o PERSON \o <<".">> \o NAME \o <<",", " ">>
          \o PERSON \o <<".">> \o ID \o <<")">> }

MarkerTypes(p) ==
    IF p.kind = "input" THEN {p.typeName}
    ELSE IF p.kind = "output"
    THEN {p.targetTypes[i].typeName : i \in DOMAIN p.targetTypes}
    ELSE {}

\* The members the part p names: the member of an input, the members of
\* the targets that are no asterisk and, under a single star target, the
\* explicit source columns.
ExplicitMembers(p) ==
    IF p.kind = "input"
    THEN IF p.memberName = STAR THEN {} ELSE {<<p.typeName, p.memberName>>}
    ELSE IF p.kind = "output"
    THEN {<<p.targetTypes[i].typeName, p.targetTypes[i].memberName>> :
             i \in {j \in DOMAIN p.targetTypes : p.targetTypes[j].memberName # STAR}}
         \cup (IF ExplicitColumns(p) /\ StarTarget(p)
               THEN {<<p.targetTypes[1].typeName, p.sourceColumns[i].columnName>> :
                        i \in DOMAIN p.sourceColumns}
               ELSE {})
    ELSE {}

\* Whether the type t has the member m: a struct has its tags, a map has
\* every key.
HasMember(t, m) == t.kind = "map" \/ m \in TagsOf(t)

ValidSample(i) == samples[i].typ.kind \in {"struct", "map"} /\ samples[i].typ.name # <<>>

\* The indexes of the exemplars whose type name an earlier exemplar has
\* as well.
Repeated ==
    {j \in DOMAIN samples :
        \E i \in 1..(j - 1) : samples[i].typ.name = samples[j].typ.name}

\* The first exemplar whose type name an earlier exemplar has as well, and
\* that earlier exemplar.
FirstRepeated == CHOOSE j \in Repeated : \A k \in Repeated : j <= k
FirstOfName ==
    CHOOSE i \in 1..(FirstRepeated - 1) :
        samples[i].typ.name = samples[FirstRepeated].typ.name

\* C20: the collection of the exemplars never replaces an entry silently:
\* with two exemplars of one type name among valid exemplars a type binder
\* fails, with the error of the multiple instances when the two are of the
\* same type and with the error of the two types when they are not.
C20_NoSilentReplacement ==
    (/\ bound.by # "none"
     /\ \A i \in DOMAIN samples : ValidSample(i)
     /\ Repeated # {})
    => bound.res.err =
          IF samples[FirstRepeated].typ = samples[FirstOfName].typ
          THEN "found multiple instances of type"
          ELSE "two types found with name"

\* ------------------------------------------------------------------
\* Properties of the positions of the parser (SpecParse).
\* ------------------------------------------------------------------

\* The positions of the parser p follow each other inside the input.
Ordered(p) ==
    /\ 0 <= p.prevPart
    /\ p.prevPart <= p.partStart
    /\ p.partStart <= p.pos
    /\ p.pos <= Len(p.input)

\* The parser as a turn of the loop of Parse finds it.
TurnStart == [parser EXCEPT !.partStart = parser.pos]

\* Whether parseStringLiteral, on a quote in the parser p, reads the byte
\* two before the position behind the closing quote it finds inside the
\* input.
LiteralReadInside(p) ==
    (/\ p.pos < Len(p.input) /\ ByteAt(p, p.pos) \in Quotes
     /\ skipByteFind(skipByte(p, ByteAt(p, p.pos)).p, ByteAt(p, p.pos)).ok)
    => skipByteFind(skipByte(p, ByteAt(p, p.pos)).p, ByteAt(p, p.pos)).p.pos - 2 >= 0

\* C27: Parse ends on every input without a read outside of it: in the loop
\* of Parse every turn ends the parse, with the expression or with an error,
\* or leaves the position further on than it found it, and at every turn
\* and after each of the three attempts of a turn 0 <= prevPart <=
\* partStart <= pos <= len(input) holds.
C27_ParseAdvancesInsideInput ==
    /\ Ordered(parser)
    /\ parsing.at = "loop" =>
          /\ \/ turn(parser).err # ""
             \/ turn(parser).done
             \/ turn(parser).p.pos > parser.pos
          /\ Ordered(turn(parser).p)
          /\ Ordered(parseOutputExpression(TurnStart).p)
          /\ Ordered(parseInputExpression(TurnStart).p)
          /\ Ordered(parseStringLiteral(TurnStart).p)
          /\ LiteralReadInside(TurnStart)

\* Parse is in its loop behind a part it added, on a byte at which no
\* attempt parses, with input left: the turn advances.
C27_Witness ==
    /\ parsing.at = "loop"
    /\ parser.parts # <<>>
    /\ 0 < parser.pos /\ parser.pos < Len(parser.input)
    /\ turn(parser).err = "" /\ ~turn(parser).done
    /\ turn(parser).p.parts = parser.parts
    /\ turn(parser).p.pos > parser.pos

\* Whether the skip function that returned r in the parser q left q as it
\* was when it returned false.
SkipKept(q, r) == ~r.ok => r.p = q

\* Whether the parse function that returned r in the parser q left q as it
\* was when it parsed nothing and returned no error.
ParseKept(q, r) == (~r.ok /\ r.err = "") => r.p = q

\* The bytes and the strings the parser skips.
SkippedBytes   == {" ", "$", "*", ".", ",", "(", ")", "'", "\""}
SkippedStrings == {<<" ", "&">>, <<"A", "S">>}

\* The inputs of one token and of two.
ShortInputs == Tokens \cup {t1 \o t2 : t1 \in Tokens, t2 \in Tokens}

\* Whether every skip function and every parse function keeps the parser q
\* when it returns false, or parses nothing and returns no error.
CheckpointsKept(q) ==
    /\ \A b \in SkippedBytes :
          SkipKept(q, skipByte(q, b))
    /\ \A b \in Quotes : SkipKept(q, skipByteFind(q, b))
    /\ \A str \in SkippedStrings : SkipKept(q, skipString(q, str))
    /\ SkipKept(q, skipSpaces(q))
    /\ SkipKept(q, skipName(q))
    /\ \A starF \in {allowStar, disallowStar} : ParseKept(q, parseIdentifier(q, starF))
    /\ ParseKept(q, parseColumn(q))
    /\ ParseKept(q, parseGoObject(q))
    /\ ParseKept(q, parseColumns(q))
    /\ ParseKept(q, parseTargets(q))
    /\ ParseKept(q, parseOutputExpression(q))
    /\ ParseKept(q, parseInputExpression(q))
    /\ ParseKept(q, parseStringLiteral(q))

\* C26: every skip function that returns false, and every parse function
\* that parses nothing and returns no error, leaves the parser (pos,
\* prevPart, partStart, parts) as it found it: where Parse stands in its
\* loop, and, when Parse begins on an input of one or two tokens, at every
\* position of the input.
C26_CheckpointDiscipline ==
    parsing.at = "loop" =>
        /\ CheckpointsKept(parser)
        /\ (parser.pos = 0 /\ parser.input \in ShortInputs) =>
              \A j \in 0..Len(parser.input) : CheckpointsKept([parser EXCEPT !.pos = j])

\* Parse is in its loop, with parts added, at a list of columns that
\* parseColumns reads to its end and that no keyword follows: the output
\* expression is not parsed and the parser is where it was.
C26_Witness ==
    /\ parsing.at = "loop"
    /\ parser.parts # <<>>
    /\ parseColumns(parser).ok
    /\ Len(parseColumns(parser).val) > 1
    /\ ~parseOutputExpression(parser).ok
    /\ parseOutputExpression(parser).err = ""
    /\ parseOutputExpression(parser).p = parser

\* The inputs among the typed expressions tes.
InputsOf(tes) == {i \in DOMAIN tes : tes[i].kind = "input"}

\* Whether the parameters params are those of the inputs of tes, named from
\* zero on in the order of the inputs.
NumberedFromZero(tes, params) ==
    /\ Len(params) = Cardinality(InputsOf(tes))
    /\ \A i \in DOMAIN params : params[i].Name = sqlairPrefix \o Itoa(i - 1)

\* Whether the step is a call of BindInputs.
BindInputsCalled == primed' # primed \/ args' # args

\* C24: every call of BindInputs on a type bound expression, whatever calls
\* came before it and whether they failed, leaves the expression as it was,
\* returns what BindInputs returns for the expression and the arguments of
\* this call alone, and, when it succeeds, names its parameters from zero.
C24_BindInputsKeepsExpression ==
    [][(Succeeded(bound, "BindTypes") /\ BindInputsCalled) =>
          /\ bound' = bound
          /\ pe' = pe
          /\ primed'.by = "BindInputs"
          /\ \E rng \in RangeOrders(TypesOf(args')) :
                primed'.res = BindInputs(bound.res.val, args', rng)
          /\ primed'.res.err = "" =>
                NumberedFromZero(bound.res.val, primed'.res.val.params)]_vars

\* BindInputs returned a query with two parameters and an output.
C24_Witness ==
    /\ Succeeded(primed, "BindInputs")
    /\ Len(primed.res.val.params) = 2
    /\ primed.res.val.outputs # <<>>

\* Complete ran with one argument on a statement with two or more inputs,
\* all of them of members the argument has.
OneArgumentManyMarkers ==
    /\ primed.by = "Complete"
    /\ Succeeded(bound, "Assemble")
    /\ Len(args) = 1
    /\ Cardinality(InputsOf(pe)) >= 2
    /\ \A i \in InputsOf(pe) :
          /\ pe[i].typeName = args[1].typ.name
          /\ pe[i].memberName \in args[1].keys

\* C28: when two or more inputs name one type and one argument of that type
\* is supplied, Complete succeeds and yields one value for each input.
C28_OneArgumentServesEveryMarker ==
    OneArgumentManyMarkers =>
        /\ primed.res.err = ""
        /\ Len(primed.res.val.InputValues) = Cardinality(InputsOf(pe))

\* The arguments a in every order.
Reordered(a) == {[i \in DOMAIN a |-> a[f[i]]] : f \in Orders(DOMAIN a)}

\* Whether the results r1 and r2 of an input binder are one outcome: both
\* are failures, or both are the same primed query.
SameOutcome(r1, r2) ==
    /\ (r1.err = "") = (r2.err = "")
    /\ r1.err = "" => r1.val = r2.val

\* C29: what BindInputs returned for its arguments is what it returns for
\* the same arguments in any other order, whatever the order of the ranges
\* over its table of types: the same SQL, parameters and outputs, or a
\* failure in every order.
C29_ArgumentOrderIrrelevant ==
    primed.by = "BindInputs" =>
        \A a \in Reordered(args) : \A rng \in RangeOrders(TypesOf(a)) :
            SameOutcome(primed.res, BindInputs(bound.res.val, a, rng))

\* BindInputs succeeded with two arguments of different types and two
\* parameters.
C29_Witness ==
    /\ Succeeded(primed, "BindInputs")
    /\ Len(args) = 2
    /\ args[1].typ # args[2].typ
    /\ Len(primed.res.val.params) = 2
    /\ primed.res.val.params[1].Value.of # primed.res.val.params[2].Value.of

\* The slice supplied for the slice input part.
SliceOf(part) == args.slices[CHOOSE t \in SliceTypes : t.name = part.typeName]

\* The number of placeholders the i-th part of the statement stands for.
Width(i) ==
    IF pe[i].kind # "input" THEN 0
    ELSE IF pe[i].isSlice THEN Len(SliceOf(pe[i]))
    ELSE 1

\* The number of placeholders before the i-th part of the statement.
RECURSIVE PlaceholdersBefore(_)
PlaceholdersBefore(i) ==
    IF i <= 1 THEN 0 ELSE PlaceholdersBefore(i - 1) + Width(i - 1)

\* The placeholders @sqlair_N, ..., @sqlair_(N+n-1) with commas between
\* them.
PlaceholderGroup(N, n) ==
    Join([k \in 1..n |-> inputPrefix \o Itoa(N + k - 1)
                         \o (IF k < n THEN commaText ELSE <<>>)])

\* The SQL of the statement when every input stands for its group of
\* placeholders.
GroupedSQL ==
    Join([i \in DOMAIN pe |->
            IF pe[i].kind = "input"
            THEN PlaceholderGroup(PlaceholdersBefore(i), Width(i))
            ELSE pe[i].chunk])

\* Whether the parameters of the i-th part, a slice input, are the elements
\* of its slice in their order, named like its placeholders.
GroupParams(i, params) ==
    \A k \in 1..Width(i) :
        params[PlaceholdersBefore(i) + k] =
            Named(sqlairPrefix \o Itoa(PlaceholdersBefore(i) + k - 1), SliceOf(pe[i])[k])

NilOnError(r) == r.res.err # "" => r.res.val = <<>>

\* C21: whenever Parse, BindTypes, Prepare or BindInputs returns an error,
\* the expression or the query it returns is nil; this holds as well for
\* every earlier call of Parse on the parser.
C21_ErrorMeansNil ==
    /\ (parsing.at = "returned" /\ parsing.err # "") => parsing.expr = NilExpr
    /\ \A i \in DOMAIN parsing.earlier :
          parsing.earlier[i].err # "" => parsing.earlier[i].expr = NilExpr
    /\ NilOnError(bound)
    /\ NilOnError(primed)

\* A call of Parse failed and returned nil, the next call on the parser
\* succeeded, its expression was bound to types, and BindInputs failed and
\* returned nil.
C21_Witness ==
    /\ Len(parsing.earlier) = 1
    /\ parsing.earlier[1].err # "" /\ parsing.earlier[1].expr = NilExpr
    /\ parsing.at = "returned" /\ parsing.err = ""
    /\ Succeeded(bound, "BindTypes")
    /\ primed.by = "BindInputs"
    /\ primed.res.err # "" /\ primed.res.val = <<>>

\* A call of Parse returned an expression, and Prepare failed on it and
\* returned nil.
PrepareFailedNil ==
    /\ parsing.at = "returned" /\ parsing.err = ""
    /\ bound.by = "Prepare"
    /\ bound.res.err # "" /\ bound.res.val = <<>>

\* What Parse returns when the next turn of its loop is t.
RECURSIVE parseLoop(_)
parseLoop(t) ==
    IF t.err # "" THEN [expr |-> NilExpr, err |-> t.err, detail |-> t.at]
    ELSE IF t.done THEN [expr |-> ParsedExpr(t.p.parts), err |-> "", detail |-> <<>>]
    ELSE parseLoop(turn(t.p))

\* What Parse returns for the input on a parser that was never used.
ParseOnNew(input) == parseLoop(turn(init(NewParser, input)))

\* Whether the call c of Parse returned r.
ReturnedAs(c, r) == c.expr = r.expr /\ c.err = r.err /\ c.detail = r.detail

\* Whether the call c of Parse returned what Parse returns for its input on
\* a new parser.
AsOnNew(c) == ReturnedAs(c, ParseOnNew(c.input))

\* C25: every call of Parse on a parser, whatever calls came before it and
\* whether they failed, returns what Parse returns for its input on a new
\* parser; and the parts of an expression returned earlier are in another
\* slice than the one a later call writes to.
C25_ParserReuse ==
    /\ parsing.at = "returned" => AsOnNew(KeptOfCall)
    /\ \A i \in DOMAIN parsing.earlier :
          /\ AsOnNew(parsing.earlier[i])
          /\ parsing.earlier[i].array # parser.array

\* The second call of Parse on the parser returned an expression with
\* parts, after a first call that returned an expression with other parts.
C25_Witness ==
    /\ parsing.at = "returned" /\ parsing.err = ""
    /\ Len(parsing.earlier) = 1
    /\ parsing.earlier[1].err = ""
    /\ Len(parsing.earlier[1].expr.QueryParts) > 1
    /\ Len(parsing.expr.QueryParts) > 1
    /\ parsing.expr # parsing.earlier[1].expr

\* Whether the entries e1 and e2 describe a type alike.
Equivalent(e1, e2) == e1.typ = e2.typ /\ e1.tags = e2.tags

\* C22: in every interleaving of concurrent calls of TypeInfo, a call that
\* returns, returns an entry equivalent to the information of its type and
\* to the entry of the cache; and an entry of the cache is never taken out,
\* replaced by another or changed.
C22_CacheEntriesOneShot ==
    [][/\ \A t \in DOMAIN cache : t \in DOMAIN cache' /\ cache'[t] = cache[t]
       /\ \A c \in Callers :
             callers'[c].at = "returned" =>
                /\ callers'[c].typ \in DOMAIN cache'
                /\ Equivalent(callers'[c].info, cache'[callers'[c].typ])
                /\ Equivalent(callers'[c].info, generateInfo(callers'[c].typ, c))]_vars

\* Two calls missed the cache for one type and both made its information;
\* both returned the entry that the first of them stored.
C22_Witness ==
    \E c1, c2 \in Callers :
        /\ c1 # c2
        /\ callers[c1].at = "returned" /\ callers[c1].made
        /\ callers[c2].at = "returned" /\ callers[c2].made
        /\ callers[c1].typ = callers[c2].typ
        /\ callers[c1].info = cache[callers[c1].typ]
        /\ callers[c2].info = cache[callers[c1].typ]
        /\ callers[c2].info.madeBy = c1

\* Whether the call t of Txn, as far as it has come, has attempted at most
\* one of Commit and Rollback, Rollback only after an error of fn and
\* Commit only after fn returned nil, and neither without a transaction.
OneOfCommitAndRollback(t) ==
    /\ t.commits <= 1
    /\ ~(t.commits > 0 /\ t.rollbacks > 0)
    /\ t.rollbacks > 0 => (t.begun /\ t.fnErr # "")
    /\ t.commits > 0 => (t.begun /\ t.fnErr = "")

\* Whether the call t of Txn, which returned after it had begun a
\* transaction, attempted Rollback and returned the error of fn, or
\* attempted Commit and returned its error, if it is not ErrTXDone.
ReturnedAfterOne(t) ==
    IF t.fnErr # ""
    THEN t.rollbacks >= 1 /\ t.commits = 0 /\ t.ret = t.fnErr
    ELSE /\ t.commits = 1 /\ t.rollbacks = 0
         /\ t.ret = (IF t.commitErr \in {"", ErrTXDone} THEN "" ELSE t.commitErr)

\* The call of Txn in progress and the calls that returned.
TxnCalls == {txn} \cup {txn.earlier[i] : i \in DOMAIN txn.earlier}

\* C30: a call of Txn that has begun a transaction attempts exactly one of
\* Commit and Rollback before it returns: Rollback, through the retry
\* strategy, if and only if fn returned an error, and then it returns the
\* error of fn even when the rollback failed; Commit if fn returned nil, and
\* then ErrTXDone from Commit is reported as success.
C30_CommitOrRollback ==
    \A t \in TxnCalls :
        /\ OneOfCommitAndRollback(t)
        /\ (t.at = "returned" /\ t.begun) => ReturnedAfterOne(t)
        /\ (t.at = "returned" /\ ~t.begun) => (t.commits = 0 /\ t.rollbacks = 0)

\* A call of Txn whose commit returned ErrTXDone returned nil, and the next
\* call returned the error of fn after the rollback failed at every attempt.
C30_Witness ==
    /\ Len(txn.earlier) = 1
    /\ txn.earlier[1].commits = 1 /\ txn.earlier[1].commitErr = ErrTXDone
    /\ txn.earlier[1].ret = ""
    /\ txn.at = "returned"
    /\ txn.fnErr = ErrFn /\ txn.ret = ErrFn
    /\ txn.rollbacks = MaxAttempts /\ txn.rollbackErr = ErrLocked
    /\ txn.commits = 0

====
